---- MODULE Spec2Model ----
(***************************************************************************)
(* Model of the hindsight trace server: TraceStore (storage.rs), the RPC   *)
(* service in front of it (service_impl.rs), Trace::from_spans and         *)
(* Trace::classify_type (hindsight-protocol/src/span.rs) and the           *)
(* traceparent header (hindsight-protocol/src/trace_context.rs).           *)
(*                                                                         *)
(* ingest() is a synchronous function called from RPC handlers that run   *)
(* on a multi-threaded runtime, so two calls may interleave between any    *)
(* two operations on the shared maps and on the broadcast channel.  Each   *)
(* such operation is one action below.                                     *)
(***************************************************************************)
EXTENDS Integers, Sequences, FiniteSets, TLC

VARIABLES
    spans,          \* TraceStore.spans : DashMap<SpanId, Span>
    traces,         \* TraceStore.traces: DashMap<TraceId, StoredTrace>
    ttl,            \* TraceStore.ttl
    now,            \* the clock (SystemTime::now and the runtime's timer)
    next_sweep,     \* deadline of the sweeper's interval
    chan,           \* the broadcast channel behind event_tx
    receivers,      \* live broadcast receivers (one per stream_traces call)
    tasks,          \* the RPC handler tasks running ingest_spans
    published,      \* history: every event handed to event_tx.send, in order
    last_ingested,  \* history: the span processed last, by a call running alone
    sent,           \* history: every span clients have sent, in order of the calls
    inputs,         \* the spans clients may send in this run
    limit,          \* how many spans clients may send in this run
    lagged,         \* history: the streams that ended on Err(Lagged), and what they had yielded
    arg,            \* the argument of the query or function being applied
    out,            \* what it returned
    client,         \* a client process: its span queue and its batcher task
    sweeper         \* the sweeper task and the references to the store

vars == <<spans, traces, ttl, now, next_sweep, chan, receivers, tasks,
          published, last_ingested, sent, inputs, limit, lagged, arg, out, client, sweeper>>

-----------------------------------------------------------------------------
(* Bounds *)

MaxSpans == 2       \* spans sent in one run of the store specification
MaxSweepSpans == 1  \* spans sent in one run of the sweeper specification
MaxEventSpans == 1  \* spans sent in one run of the subscriber specification
MaxTime == 3        \* the clock stops here
MaxTtl == 1         \* the store is built with a ttl of 0 .. MaxTtl
MaxSkewSpans == 2   \* spans sent in one run of the clock-skew specification
MaxLimit == 2       \* the listing specification's filters have a limit of 0 .. MaxLimit
MaxLen == 3         \* spans in the vector given to from_spans
MaxTraceSpans == 2  \* spans of the trace given to classify_type
MaxClientSpans == 3 \* spans a client ends in one run
MaxResweepSpans == 3 \* spans sent in one run of the re-ingest specification
MaxSweeperSpans == 2 \* spans sent in one run of the sweeper specification
MaxStoredSpans == 2 \* spans sent in one run of the stored-trace specification

TaskIds == {1, 2}   \* RPC handler tasks that may run at once
RxIds == {1, 2}     \* stream_traces calls that may be open at once
TraceIds == {1, 2}
SpanIds == {1, 2}

-----------------------------------------------------------------------------
(* Option<T> *)

None == <<>>
Some(x) == <<x>>
IsSome(o) == o # <<>>
Unwrap(o) == o[1]

(* The reserved service name, service_impl.rs:23 *)
SelfService == "hindsight-server"

(* Span (span.rs:24).  name, attributes, events and status play no part   *)
(* in ingest and are left out here; WithDetail adds those the queries      *)
(* read.                                                                   *)
MkSpan(t, i, p, s, e, svc) ==
    [trace_id |-> t, span_id |-> i, parent_span_id |-> p,
     start_time |-> s, end_time |-> e, service_name |-> svc]

(* Spans of other services: a root or a child, open or finished, of      *)
(* either trace.  A span starts at the time of its span id and, when       *)
(* finished, ends one tick later.                                          *)
ClientSpans ==
    { MkSpan(t, i, p, i, IF f THEN Some(i + 1) ELSE None, "api") :
        t \in TraceIds, i \in SpanIds, p \in {None, Some(9)}, f \in BOOLEAN }

(* Spans the server's own tracer would emit. *)
SelfSpans ==
    { MkSpan(1, i, None, i, Some(i + 1), SelfService) : i \in SpanIds }

(* Span 1 is the root of trace 1.  Span 2 is its child, or a second       *)
(* finished root, of trace 1 or of trace 2.                                *)
StoreInputs ==
    { s \in ClientSpans :
        /\ s.span_id = 1 => s.trace_id = 1 /\ s.parent_span_id = None
        /\ s.span_id = 2 /\ s.parent_span_id = None => s.end_time # None
        /\ s.trace_id = 2 => s.parent_span_id = None }
        \cup { s \in SelfSpans : s.span_id = 1 }

(* Finished roots only. *)
SweepInputs ==
    { s \in StoreInputs : s.parent_span_id = None /\ s.end_time # None /\ s.service_name # SelfService }

(* The finished root of trace 1 and its finished child. *)
EventInputs ==
    { s \in StoreInputs : s.trace_id = 1 /\ s.end_time # None /\ s.service_name # SelfService
                            /\ (s.span_id = 1 <=> s.parent_span_id = None) }

(* The finished root of trace 1, its finished child, and a record that    *)
(* reuses the root's span_id for a child.                                  *)
ResweepInputs ==
    { MkSpan(1, 1, None, 1, Some(2), "api"),
      MkSpan(1, 2, Some(1), 2, Some(3), "api"),
      MkSpan(1, 1, Some(9), 1, Some(2), "api") }

(* A root that starts after its child, the child, and two roots of trace  *)
(* 2, one of which reuses the span_id of the root of trace 1.              *)
StoredInputs ==
    { MkSpan(1, 1, None, 2, Some(3), "api"),
      MkSpan(1, 2, Some(1), 1, None, "api"),
      MkSpan(2, 3, None, 1, Some(2), "api"),
      MkSpan(2, 1, None, 3, None, "api") }

(* Spans of a client whose clock jumped back: the root of trace 1, which  *)
(* starts at 2 and ends at 1 or at 3, and its child, which ended at 1.     *)
SkewInputs ==
    { MkSpan(1, 1, None, 2, Some(e), "api") : e \in {1, 3} }
        \cup { MkSpan(1, 2, Some(9), 2, Some(1), "api") }

-----------------------------------------------------------------------------
(* Trace::from_spans, span.rs:82-109 *)

(* Insert x after every element whose key is <= x's key: the step of a    *)
(* stable insertion sort.                                                  *)
RECURSIVE InsertByStart(_, _)
InsertByStart(sorted, x) ==
    IF sorted = <<>> THEN <<x>>
    ELSE IF Head(sorted).start_time <= x.start_time
         THEN <<Head(sorted)>> \o InsertByStart(Tail(sorted), x)
         ELSE <<x>> \o sorted

(* spans.sort_by_key(|s| s.start_time.0): a stable sort, span.rs:87 *)
RECURSIVE SortByStart(_)
KeepOrder(s) == s
SortByStart(s) ==
    IF s = <<>> THEN <<>>
    ELSE InsertByStart(SortByStart(SubSeq(s, 1, Len(s) - 1)), s[Len(s)])

(* iter().find(|s| s.parent_span_id.is_none()), span.rs:92-93 *)
RECURSIVE FindRoot(_)
FindRootOrFirst(s) ==
    IF s = <<>> THEN None
    ELSE IF \E k \in 1 .. Len(s) : s[k].parent_span_id = None
         THEN Some(s[CHOOSE k \in 1 .. Len(s) :
                        /\ s[k].parent_span_id = None
                        /\ \A j \in 1 .. k - 1 : s[j].parent_span_id # None])
         ELSE Some(Head(s))
FindRoot(s) ==
    IF s = <<>> THEN None
    ELSE IF Head(s).parent_span_id = None THEN Some(Head(s))
    ELSE FindRoot(Tail(s))

(* filter_map(|s| s.end_time).max_by_key(|t| t.0), span.rs:98-100 *)
MaxEndTime(s) ==
    LET ends == { Unwrap(s[k].end_time) : k \in { j \in 1 .. Len(s) : IsSome(s[j].end_time) } }
    IN  IF ends = {} THEN None
        ELSE Some(CHOOSE m \in ends : \A e \in ends : e <= m)

from_spans(input) ==
    IF input = <<>> THEN None
    ELSE LET sorted == SortByStart(input)
             root == FindRoot(sorted)
         IN  IF root = None THEN None
             ELSE Some([trace_id |-> sorted[1].trace_id,
                        spans |-> sorted,
                        root_span_id |-> Unwrap(root).span_id,
                        start_time |-> Unwrap(root).start_time,
                        end_time |-> MaxEndTime(sorted)])

-----------------------------------------------------------------------------
(* The fields of Span that the queries read, span.rs:28-34.  status is    *)
(* "Ok" or "Error"; attributes maps keys to values [kind, v] of            *)
(* AttributeValue (span.rs:47-52).                                         *)
WithDetail(s, name, status, attributes) ==
    [trace_id |-> s.trace_id, span_id |-> s.span_id,
     parent_span_id |-> s.parent_span_id,
     start_time |-> s.start_time, end_time |-> s.end_time,
     service_name |-> s.service_name,
     name |-> name, status |-> status, attributes |-> attributes]

StringValue(v) == [kind |-> "String", v |-> v]
BoolValue(v) == [kind |-> "Bool", v |-> IF v THEN "true" ELSE "false"]

(* Trace::classify_type, span.rs:119-162 *)
HasKeyInFirst(trace, key) == key \in DOMAIN trace.spans[1].attributes
HasKey(trace, key) ==
    \E k \in 1 .. Len(trace.spans) : key \in DOMAIN trace.spans[k].attributes

HasString(trace, key, v) ==
    \E k \in 1 .. Len(trace.spans) :
        /\ key \in DOMAIN trace.spans[k].attributes
        /\ trace.spans[k].attributes[key] = StringValue(v)

CountTrue(flags) == Cardinality({ k \in 1 .. Len(flags) : flags[k] })

classify_type(trace) ==
    LET has_picante == HasKey(trace, "picante.query")
        has_rapace == HasString(trace, "rpc.system", "rapace")
        has_dodeca == HasKey(trace, "dodeca.build")
        count == CountTrue(<<has_picante, has_rapace, has_dodeca>>)
    IN  IF count = 0 THEN "Generic"
        ELSE IF count = 1
             THEN IF has_picante THEN "Picante"
                  ELSE IF has_rapace THEN "Rapace"
                  ELSE "Dodeca"
        ELSE "Mixed"

-----------------------------------------------------------------------------
(* TraceEvent, events.rs:9-26.  TraceStarted's root_span_name is left out *)
(* with Span.name.                                                         *)

TraceStarted(s) ==
    [type |-> "TraceStarted", trace_id |-> s.trace_id, service_name |-> s.service_name]

SpanAdded(s) ==
    [type |-> "SpanAdded", trace_id |-> s.trace_id, span |-> s]

TraceCompleted(t, d, n) ==
    [type |-> "TraceCompleted", trace_id |-> t, duration_nanos |-> d, span_count |-> n]

-----------------------------------------------------------------------------
(* The broadcast channel, storage.rs:22.  A send with no live receiver    *)
(* fails and stores nothing; otherwise the value takes the next position  *)
(* and the ring keeps the last Capacity values.  Each stored value carries *)
(* the number it has in the history of published events.  The ring of the  *)
(* program holds 1000 values (rounded up to a power of two by the          *)
(* channel); the model's ring is scaled down to 2.                         *)

Capacity == 2

Last(s, n) == IF Len(s) <= n THEN s ELSE SubSeq(s, Len(s) - n + 1, Len(s))

ChanTail(c) == c.head + Len(c.buf)

ChanSendKeepAll(c, e, seq) ==
    [buf |-> Append(c.buf, [seq |-> seq, event |-> e]), head |-> c.head]
ChanSendFront(c, e, seq) ==
    LET all == <<[seq |-> seq, event |-> e]>> \o c.buf
        kept == Last(all, Capacity)
    IN  [buf |-> kept, head |-> c.head + (Len(all) - Len(kept))]
ChanSend(c, e, seq) ==
    LET all == Append(c.buf, [seq |-> seq, event |-> e])
        kept == Last(all, Capacity)
    IN  [buf |-> kept, head |-> c.head + (Len(all) - Len(kept))]

(* let _ = self.event_tx.send(e): storage.rs:58, 66, 178 *)
Publish(e) ==
    /\ published' = Append(published, e)
    /\ chan' = IF DOMAIN receivers = {} THEN chan
               ELSE ChanSend(chan, e, Len(published) + 1)

-----------------------------------------------------------------------------
(* The concurrent maps *)

MapReplace(m, k, v) == [x \in {k} |-> v]
MapInsertIfAbsent(m, k, v) == [x \in DOMAIN m \cup {k} |-> IF x \in DOMAIN m THEN m[x] ELSE v]
MapInsert(m, k, v) == [x \in DOMAIN m \cup {k} |-> IF x = k THEN v ELSE m[x]]
MapRemove(m, k) == [x \in DOMAIN m \ {k} |-> m[x]]

(* The members of a set of integers in ascending order. *)
RECURSIVE Ascending(_)
Ascending(S) ==
    IF S = {} THEN <<>>
    ELSE LET m == CHOOSE x \in S : \A y \in S : x <= y
         IN  <<m>> \o Ascending(S \ {m})

(* update_trace's scan of the span map, storage.rs:163-168.  The order of *)
(* a DashMap iteration is fixed for a given map; it is taken to be the     *)
(* order of the keys.                                                      *)
SpansOfTrace(m, t) ==
    LET ids == Ascending({ i \in DOMAIN m : m[i].trace_id = t })
    IN  [k \in 1 .. Len(ids) |-> m[ids[k]]]

(* storage.rs:173-174 *)
is_complete(trace) ==
    /\ IsSome(trace.end_time)
    /\ \A k \in 1 .. Len(trace.spans) : IsSome(trace.spans[k].end_time)

(* Timestamp(pub u64), span.rs:10: the number of values of the type.  The *)
(* program's is 2^64; the model's word is scaled down to four bits.        *)
WordSize == 16

(* u64 subtraction e.0 - trace.start_time.0, storage.rs:177 (and :100).   *)
(* When the end is before the start the subtraction overflows: a build     *)
(* without overflow checks returns the difference modulo the word size,    *)
(* a build with them panics (the step Overflow below).                     *)
overflows(trace) == Unwrap(trace.end_time) < trace.start_time

duration_nanos(trace) == (Unwrap(trace.end_time) - trace.start_time) % WordSize

(* get_trace, storage.rs:81-83 *)
get_trace(t) == IF t \in DOMAIN traces THEN Some(traces[t].trace) ELSE None

-----------------------------------------------------------------------------
(* HindsightServiceImpl::ingest_spans, service_impl.rs:19-27 *)

(* .filter(|span| span.service_name != "hindsight-server") *)
FilterNothing(req) == req
FilterSelf(req) == SelectSeq(req, LAMBDA s : s.service_name # SelfService)

(* let count = spans.len() as u32 on the vector ingest() is given, which  *)
(* is the filtered one (storage.rs:50, service_impl.rs:26).                *)
ingest_count_of_request(req, batch) == Len(req)
ingest_count(req, batch) == Len(batch)

IdleTask ==
    [pc |-> "idle", batch |-> <<>>, count |-> 0, is_new |-> FALSE, trace |-> None,
     ret |-> None,
     \* history of the task's latest call
     req |-> <<>>, pub |-> <<>>, clean |-> FALSE, overlapped |-> FALSE,
     spans0 |-> <<>>, traces0 |-> <<>>, prev |-> None]

Requests(n) == UNION { [1 .. k -> inputs] : k \in 1 .. n }

Quiescent == \A t \in TaskIds : tasks[t].pc = "idle"

(* The handler is entered: the filter runs, then ingest() takes the       *)
(* length of what it was given (storage.rs:50).  The handler tasks are     *)
(* interchangeable, so a new call is given to the idle task of lowest id.  *)
Call(t) ==
    /\ tasks[t].pc = "idle"
    /\ \A u \in TaskIds : u < t => tasks[u].pc # "idle"
    /\ \E req \in Requests(limit - Len(sent)) :
        /\ sent' = sent \o req
        /\ tasks' = [u \in TaskIds |->
              IF u = t
              THEN [IdleTask EXCEPT
                      !.pc = "loop",
                      !.batch = FilterSelf(req),
                      !.count = ingest_count(req, FilterSelf(req)),
                      !.req = req,
                      !.clean = \A v \in TaskIds \ {t} : tasks[v].pc = "idle",
                      !.overlapped = \E v \in TaskIds \ {t} : tasks[v].pc # "idle",
                      !.spans0 = spans,
                      !.traces0 = traces,
                      !.prev = last_ingested]
              ELSE [tasks[u] EXCEPT !.clean = FALSE,
                                    !.overlapped = @ \/ tasks[u].pc # "idle"]]
    /\ UNCHANGED <<spans, traces, ttl, now, next_sweep, chan, receivers,
                   published, last_ingested, inputs, limit, lagged, arg, out, client, sweeper>>

(* storage.rs:54-55 *)
is_new_trace_by_trace(span, m) ==
    /\ span.parent_span_id = None
    /\ \A i \in DOMAIN m : m[i].trace_id # span.trace_id
is_new_trace(span, m) ==
    /\ span.parent_span_id = None
    /\ span.span_id \notin DOMAIN m

(* for span in spans: the next span, and is_new_trace, storage.rs:52-55 *)
Check(t) ==
    /\ tasks[t].pc = "loop"
    /\ tasks[t].batch # <<>>
    /\ LET span == Head(tasks[t].batch)
           new == is_new_trace(span, spans)
       IN  tasks' = [tasks EXCEPT ![t].is_new = new,
                                  ![t].pc = IF new THEN "started" ELSE "added"]
    /\ UNCHANGED <<spans, traces, ttl, now, next_sweep, chan, receivers,
                   published, last_ingested, sent, inputs, limit, lagged, arg, out, client, sweeper>>

(* storage.rs:57-63 *)
PublishStarted(t) ==
    /\ tasks[t].pc = "started"
    /\ LET e == TraceStarted(Head(tasks[t].batch))
       IN  /\ Publish(e)
           /\ tasks' = [tasks EXCEPT ![t].pc = "added",
                                     ![t].pub = Append(@, e)]
    /\ UNCHANGED <<spans, traces, ttl, now, next_sweep, receivers,
                   last_ingested, sent, inputs, limit, lagged, arg, out, client, sweeper>>

(* An ingest that announces a span only when its span_id is new. *)
PublishAddedIfAbsent(t) ==
    /\ tasks[t].pc = "added"
    /\ LET e == SpanAdded(Head(tasks[t].batch))
       IN  IF Head(tasks[t].batch).span_id \in DOMAIN spans
           THEN /\ UNCHANGED <<published, chan>>
                /\ tasks' = [tasks EXCEPT ![t].pc = "insert"]
           ELSE /\ Publish(e)
                /\ tasks' = [tasks EXCEPT ![t].pc = "insert",
                                          ![t].pub = Append(@, e)]
    /\ UNCHANGED <<spans, traces, ttl, now, next_sweep, receivers,
                   last_ingested, sent, inputs, limit, lagged, arg, out, client, sweeper>>

(* storage.rs:66-69 *)
PublishAdded(t) ==
    /\ tasks[t].pc = "added"
    /\ LET e == SpanAdded(Head(tasks[t].batch))
       IN  /\ Publish(e)
           /\ tasks' = [tasks EXCEPT ![t].pc = "insert",
                                     ![t].pub = Append(@, e)]
    /\ UNCHANGED <<spans, traces, ttl, now, next_sweep, receivers,
                   last_ingested, sent, inputs, limit, lagged, arg, out, client, sweeper>>

(* self.spans.insert(span.span_id, span.clone()), storage.rs:71 *)
Insert(t) ==
    /\ tasks[t].pc = "insert"
    /\ LET span == Head(tasks[t].batch)
       IN  spans' = MapInsert(spans, span.span_id, span)
    /\ tasks' = [tasks EXCEPT ![t].pc = "collect"]
    /\ UNCHANGED <<traces, ttl, now, next_sweep, chan, receivers,
                   published, last_ingested, sent, inputs, limit, lagged, arg, out, client, sweeper>>

(* update_trace: collect the spans of the trace and assemble it,          *)
(* storage.rs:163-174.  Without a trace the loop goes on to the next span. *)
(* The scan is taken as one read of the map; what another call inserts     *)
(* before or after it is seen or not seen as a whole.                      *)
Collect(t) ==
    /\ tasks[t].pc = "collect"
    /\ LET span == Head(tasks[t].batch)
           built == from_spans(SpansOfTrace(spans, span.trace_id))
       IN  IF built = None
           THEN /\ tasks' = [tasks EXCEPT ![t].pc = "loop",
                                          ![t].batch = Tail(@),
                                          ![t].trace = None]
                /\ last_ingested' = IF tasks[t].clean THEN Some(span) ELSE None
           ELSE /\ tasks' = [tasks EXCEPT
                      ![t].trace = built,
                      ![t].pc = IF is_complete(Unwrap(built)) THEN "completed" ELSE "store"]
                /\ UNCHANGED last_ingested
    /\ UNCHANGED <<spans, traces, ttl, now, next_sweep, chan, receivers,
                   published, sent, inputs, limit, lagged, arg, out, client, sweeper>>

(* storage.rs:176-184 *)
PublishCompleted(t) ==
    /\ tasks[t].pc = "completed"
    /\ LET trace == Unwrap(tasks[t].trace)
           e == TraceCompleted(Head(tasks[t].batch).trace_id,
                               duration_nanos(trace), Len(trace.spans))
       IN  /\ Publish(e)
           /\ tasks' = [tasks EXCEPT ![t].pc = "store",
                                     ![t].pub = Append(@, e)]
    /\ UNCHANGED <<spans, traces, ttl, now, next_sweep, receivers,
                   last_ingested, sent, inputs, limit, lagged, arg, out, client, sweeper>>

(* storage.rs:177 in a build with overflow checks, when the trace ends    *)
(* before its root starts: the subtraction panics inside ingest().  The    *)
(* span is in the span map already; the trace is not stored, the rest of   *)
(* the batch is not processed and the call does not return a count.        *)
Overflow(t) ==
    /\ tasks[t].pc = "completed"
    /\ overflows(Unwrap(tasks[t].trace))
    /\ tasks' = [tasks EXCEPT ![t].pc = "panicked"]
    /\ UNCHANGED <<spans, traces, ttl, now, next_sweep, chan, receivers,
                   published, last_ingested, sent, inputs, limit, lagged, arg, out, client, sweeper>>

(* self.traces.insert(trace_id, StoredTrace { trace, created_at: now }),  *)
(* storage.rs:186-192                                                      *)
Store(t) ==
    /\ tasks[t].pc = "store"
    /\ LET span == Head(tasks[t].batch)
       IN  /\ traces' = MapInsert(traces, span.trace_id,
                                  [trace |-> Unwrap(tasks[t].trace), created_at |-> now])
           /\ last_ingested' = IF tasks[t].clean THEN Some(span) ELSE None
    /\ tasks' = [tasks EXCEPT ![t].pc = "loop",
                              ![t].batch = Tail(@),
                              ![t].trace = None]
    /\ UNCHANGED <<spans, ttl, now, next_sweep, chan, receivers,
                   published, sent, inputs, limit, lagged, arg, out, client, sweeper>>

(* ingest returns count (storage.rs:77) and the handler replies with it. *)
Return(t) ==
    /\ tasks[t].pc = "loop"
    /\ tasks[t].batch = <<>>
    /\ tasks' = [tasks EXCEPT ![t].pc = "idle", ![t].ret = Some(tasks[t].count)]
    /\ UNCHANGED <<spans, traces, ttl, now, next_sweep, chan, receivers,
                   published, last_ingested, sent, inputs, limit, lagged, arg, out, client, sweeper>>

Ingest(t) ==
    \/ Call(t)
    \/ Check(t)
    \/ PublishStarted(t)
    \/ PublishAdded(t)
    \/ Insert(t)
    \/ Collect(t)
    \/ PublishCompleted(t)
    \/ Store(t)
    \/ Return(t)

-----------------------------------------------------------------------------
(* stream_traces, service_impl.rs:37-47, over subscribe_events,           *)
(* storage.rs:157-159                                                      *)

(* event_tx.subscribe(): the new receiver starts at the channel's tail. *)
SubscribeAtOldest(c) == c.head
SubscribePosition(c) == ChanTail(c)

(* The handler creates the receiver and hands the stream to the client. *)
Subscribe(r) ==
    /\ r \notin DOMAIN receivers
    /\ receivers' = MapInsert(receivers, r,
                              [next |-> SubscribePosition(chan),
                               since |-> Len(published),
                               got |-> <<>>])
    /\ lagged' = MapRemove(lagged, r)
    /\ UNCHANGED <<spans, traces, ttl, now, next_sweep, chan, tasks,
                   published, last_ingested, sent, inputs, limit, arg, out, client, sweeper>>

(* rx.recv() returns Ok(event): the value at the receiver's position is   *)
(* still in the ring; the stream yields it.                                *)
Recv(r) ==
    /\ r \in DOMAIN receivers
    /\ receivers[r].next >= chan.head
    /\ receivers[r].next < ChanTail(chan)
    /\ receivers' = [receivers EXCEPT
                       ![r].got = Append(@, chan.buf[receivers[r].next - chan.head + 1]),
                       ![r].next = @ + 1]
    /\ UNCHANGED <<spans, traces, ttl, now, next_sweep, chan, tasks,
                   published, last_ingested, sent, inputs, limit, lagged, arg, out, client, sweeper>>

(* rx.recv() returns Err(Lagged): the value at the receiver's position    *)
(* was overwritten.  `while let Ok(event)` ends the stream and the         *)
(* receiver is dropped with it.                                            *)
RecvLagged(r) ==
    /\ r \in DOMAIN receivers
    /\ receivers[r].next < chan.head
    /\ receivers' = MapRemove(receivers, r)
    /\ lagged' = MapInsert(lagged, r, Len(receivers[r].got))
    /\ UNCHANGED <<spans, traces, ttl, now, next_sweep, chan, tasks,
                   published, last_ingested, sent, inputs, limit, arg, out, client, sweeper>>

(* The client closes the stream: the receiver is dropped. *)
Unsubscribe(r) ==
    /\ r \in DOMAIN receivers
    /\ receivers' = MapRemove(receivers, r)
    /\ UNCHANGED <<spans, traces, ttl, now, next_sweep, chan, tasks,
                   published, last_ingested, sent, inputs, limit, lagged, arg, out, client, sweeper>>

Stream(r) ==
    \/ Subscribe(r)
    \/ Recv(r)
    \/ RecvLagged(r)
    \/ Unsubscribe(r)

-----------------------------------------------------------------------------
(* The sweeper task, storage.rs:31-43, and cleanup_expired,               *)
(* storage.rs:197-202                                                      *)

(* tokio::time::interval(Duration::from_secs(60)), storage.rs:34, in      *)
(* units of 30 s                                                           *)
SweepInterval == 2

(* now.duration_since(created_at).unwrap_or_default(), storage.rs:200 *)
Age(at, created_at) == IF at >= created_at THEN at - created_at ELSE 0

(* self.traces.retain(|_, stored| age < self.ttl) *)
RetainExpired(m, at, life) ==
    LET keep == { t \in DOMAIN m : Age(at, m[t].created_at) >= life }
    IN  [t \in keep |-> m[t]]
RetainFresh(m, at, life) ==
    LET keep == { t \in DOMAIN m : Age(at, m[t].created_at) < life }
    IN  [t \in keep |-> m[t]]

(* A sweeper that evicts the spans of the traces it removes. *)
SweepWithSpans ==
    /\ now = next_sweep
    /\ traces' = RetainFresh(traces, now, ttl)
    /\ spans' = [i \in {j \in DOMAIN spans :
                          spans[j].trace_id \in DOMAIN traces
                              => spans[j].trace_id \in DOMAIN RetainFresh(traces, now, ttl)}
                   |-> spans[i]]
    /\ next_sweep' = next_sweep + SweepInterval
    /\ tasks' = [t \in TaskIds |-> [tasks[t] EXCEPT !.clean = FALSE]]
    /\ last_ingested' = None
    /\ UNCHANGED <<ttl, now, chan, receivers, published, sent, inputs, limit, lagged, arg, out, client, sweeper>>

(* The sweeper task as TraceStore::new spawns it, storage.rs:31-43: it    *)
(* waits for its interval and holds a Weak; the caller holds the Arc.      *)
IdleSweeper ==
    [pc      |-> "tick",    \* "tick", "sweep" (inside cleanup_expired), "exited"
     at      |-> 0,         \* cleanup_expired's reading of the clock
     owners  |-> 1,         \* strong references other than the sweeper's
     freed   |-> FALSE,     \* the store was dropped
     seen    |-> <<>>,      \* the trace map as the last retain found it
     removed |-> {}]        \* the trace ids the last retain removed

(* interval.tick() completes and the sweeper runs cleanup_expired. *)
Sweep ==
    /\ now = next_sweep
    /\ traces' = RetainFresh(traces, now, ttl)
    /\ next_sweep' = next_sweep + SweepInterval
    /\ tasks' = [t \in TaskIds |-> [tasks[t] EXCEPT !.clean = FALSE]]
    /\ last_ingested' = None
    /\ UNCHANGED <<spans, ttl, now, chan, receivers, published, sent, inputs, limit, lagged, arg, out, client, sweeper>>

(* Time passes.  The runtime's timer is taken to fire on time: the clock  *)
(* does not pass a tick of the interval before the sweeper has run for it. *)
Tick ==
    /\ now < MaxTime
    /\ now < next_sweep
    /\ now' = now + 1
    /\ UNCHANGED <<spans, traces, ttl, next_sweep, chan, receivers, tasks,
                   published, last_ingested, sent, inputs, limit, lagged, arg, out, client, sweeper>>

(* The sweeper task step by step, storage.rs:33-42 and 197-202, with the *)
(* references to the store.                                                *)

sweeper_frame == <<spans, ttl, chan, receivers, published, sent, inputs, limit,
                   lagged, arg, out, client>>

(* The interval fires and store_weak.upgrade() gives the store:            *)
(* cleanup_expired reads the clock.                                         *)
SweepBegin ==
    /\ sweeper.pc = "tick"
    /\ now = next_sweep
    /\ ~sweeper.freed
    /\ sweeper' = [sweeper EXCEPT !.pc = "sweep", !.at = now]
    /\ UNCHANGED <<traces, now, next_sweep, tasks, last_ingested>>
    /\ UNCHANGED sweeper_frame

(* The clock moves on while cleanup_expired runs. *)
TickInSweep ==
    /\ sweeper.pc = "sweep"
    /\ now = sweeper.at
    /\ now < MaxTime
    /\ now' = now + 1
    /\ UNCHANGED <<traces, next_sweep, tasks, last_ingested, sweeper>>
    /\ UNCHANGED sweeper_frame

(* self.traces.retain(..) with the clock as read; then the sweeper's Arc   *)
(* is dropped, and with it the store when no other is left.                *)
SweepRetain ==
    /\ sweeper.pc = "sweep"
    /\ traces' = RetainFresh(traces, sweeper.at, ttl)
    /\ next_sweep' = next_sweep + SweepInterval
    /\ sweeper' = [sweeper EXCEPT
                     !.pc = "tick",
                     !.seen = traces,
                     !.removed = DOMAIN traces \ DOMAIN RetainFresh(traces, sweeper.at, ttl),
                     !.freed = (sweeper.owners = 0)]
    /\ tasks' = [t \in TaskIds |-> [tasks[t] EXCEPT !.clean = FALSE]]
    /\ last_ingested' = None
    /\ UNCHANGED now
    /\ UNCHANGED sweeper_frame

(* The interval fires and upgrade() gives None: break. *)
SweeperExit ==
    /\ sweeper.pc = "tick"
    /\ now = next_sweep
    /\ sweeper.freed
    /\ sweeper' = [sweeper EXCEPT !.pc = "exited"]
    /\ UNCHANGED <<traces, now, next_sweep, tasks, last_ingested>>
    /\ UNCHANGED sweeper_frame

(* A sweeper task that holds the store alive. *)
DropStoreHeld ==
    /\ sweeper.owners = 1
    /\ Quiescent
    /\ sweeper' = [sweeper EXCEPT !.owners = 0]
    /\ UNCHANGED <<traces, now, next_sweep, tasks, last_ingested>>
    /\ UNCHANGED sweeper_frame

(* The last Arc outside the sweeper is dropped, with no handler running.   *)
(* The store is freed at once unless the sweeper is inside a sweep.        *)
DropStore ==
    /\ sweeper.owners = 1
    /\ Quiescent
    /\ sweeper' = [sweeper EXCEPT !.owners = 0, !.freed = (sweeper.pc # "sweep")]
    /\ UNCHANGED <<traces, now, next_sweep, tasks, last_ingested>>
    /\ UNCHANGED sweeper_frame

-----------------------------------------------------------------------------
(* TraceStore::list_traces, storage.rs:86-154 *)

(* filter.limit.unwrap_or(100), storage.rs:150 *)
DefaultLimit == 100

(* TraceFilter, span.rs:202-208: every field is an Option. *)
TraceFilter(service, min, max, errors, lim) ==
    [service |-> service, min_duration_nanos |-> min, max_duration_nanos |-> max,
     has_errors |-> errors, limit |-> lim]

(* storage.rs:94-98 *)
passes_service(trace, filter) ==
    IsSome(filter.service) =>
        \E k \in 1 .. Len(trace.spans) :
            trace.spans[k].service_name = Unwrap(filter.service)

(* trace.end_time.map(|e| e.0 - trace.start_time.0), storage.rs:100 *)
duration_of(trace) ==
    IF IsSome(trace.end_time) THEN Some(duration_nanos(trace)) ELSE None

(* duration.is_none_or(|d| d < min_dur) drops the trace, storage.rs:102-106 *)
above_min_or_unknown(duration, min) ==
    IsSome(min) => ~(IsSome(duration) /\ Unwrap(duration) < Unwrap(min))
above_min(duration, min) ==
    IsSome(min) => ~(duration = None \/ Unwrap(duration) < Unwrap(min))

(* duration.is_some_and(|d| d > max_dur) drops the trace, storage.rs:108-112 *)
below_max_and_known(duration, max) ==
    IsSome(max) => IsSome(duration) /\ Unwrap(duration) <= Unwrap(max)
below_max(duration, max) ==
    IsSome(max) => ~(IsSome(duration) /\ Unwrap(duration) > Unwrap(max))

(* storage.rs:114-117 *)
has_errors(trace) ==
    \E k \in 1 .. Len(trace.spans) : trace.spans[k].status = "Error"

(* storage.rs:119-123 *)
passes_errors(trace, filter) ==
    IsSome(filter.has_errors) => has_errors(trace) = Unwrap(filter.has_errors)

(* storage.rs:125-128: the trace is skipped when its root is not among    *)
(* its spans.                                                              *)
root_of(trace) ==
    LET ks == { k \in 1 .. Len(trace.spans) : trace.spans[k].span_id = trace.root_span_id }
    IN  IF ks = {} THEN None
        ELSE Some(trace.spans[CHOOSE k \in ks : \A j \in ks : k <= j])

(* The closure of filter_map: does the trace give a summary. *)
passes(trace, filter) ==
    /\ passes_service(trace, filter)
    /\ above_min(duration_of(trace), filter.min_duration_nanos)
    /\ below_max(duration_of(trace), filter.max_duration_nanos)
    /\ passes_errors(trace, filter)
    /\ IsSome(root_of(trace))

(* TraceSummary, storage.rs:133-142 *)
summary_of(trace) ==
    [trace_id |-> trace.trace_id,
     root_span_name |-> Unwrap(root_of(trace)).name,
     service_name |-> Unwrap(root_of(trace)).service_name,
     start_time |-> trace.start_time,
     duration_nanos |-> duration_of(trace),
     span_count |-> Len(trace.spans),
     has_errors |-> has_errors(trace),
     trace_type |-> classify_type(trace)]

(* summaries.sort_by(|a, b| b.start_time.0.cmp(&a.start_time.0)),        *)
(* storage.rs:147: a stable sort, later start first.                       *)
RECURSIVE InsertNewestFirst(_, _)
InsertNewestFirst(sorted, x) ==
    IF sorted = <<>> THEN <<x>>
    ELSE IF Head(sorted).start_time >= x.start_time
         THEN <<Head(sorted)>> \o InsertNewestFirst(Tail(sorted), x)
         ELSE <<x>> \o sorted

RECURSIVE SortNewestFirst(_)
SortOldestFirst(s) == SortByStart(s)
SortNewestFirst(s) ==
    IF s = <<>> THEN <<>>
    ELSE InsertNewestFirst(SortNewestFirst(SubSeq(s, 1, Len(s) - 1)), s[Len(s)])

(* summaries.truncate(limit), storage.rs:151 *)
TruncateFront(s, n) == IF Len(s) <= n THEN s ELSE SubSeq(s, Len(s) - n + 1, Len(s))
Truncate(s, n) == IF Len(s) <= n THEN s ELSE SubSeq(s, 1, n)

(* list_traces over the trace map m, visited in the order `order` of its  *)
(* keys.                                                                   *)
list_traces(m, filter, order) ==
    LET kept == SelectSeq(order, LAMBDA t : passes(m[t].trace, filter))
        summaries == [k \in 1 .. Len(kept) |-> summary_of(m[kept[k]].trace)]
        lim == IF IsSome(filter.limit) THEN Unwrap(filter.limit) ELSE DefaultLimit
    IN  Truncate(SortNewestFirst(summaries), lim)

(* The orders in which the iteration of a map may visit its keys: hash    *)
(* order, which the keys do not determine.                                 *)
Orders(S) ==
    { o \in [1 .. Cardinality(S) -> S] : \A j, k \in DOMAIN o : j # k => o[j] # o[k] }

(* storage.rs:100 reached for a trace that ends before it starts: the     *)
(* subtraction overflows, as in update_trace.                              *)
list_overflows(m, filter) ==
    \E t \in DOMAIN m :
        /\ passes_service(m[t].trace, filter)
        /\ IsSome(m[t].trace.end_time)
        /\ overflows(m[t].trace)

(* The list_traces handler, service_impl.rs:33-35: the call returns the   *)
(* summaries.                                                              *)
ListTraces ==
    /\ IsSome(arg)
    /\ out = None
    /\ \E order \in Orders(DOMAIN traces) :
          out' = Some([status |-> "ok",
                       summaries |-> list_traces(traces, Unwrap(arg), order)])
    /\ UNCHANGED <<spans, traces, ttl, now, next_sweep, chan, receivers, tasks,
                   published, last_ingested, sent, inputs, limit, lagged, arg, client, sweeper>>

(* The same call in a build with overflow checks, when the map holds a    *)
(* trace that ends before it starts: the handler panics.                   *)
ListPanics ==
    /\ IsSome(arg)
    /\ out = None
    /\ list_overflows(traces, Unwrap(arg))
    /\ out' = Some([status |-> "panicked", summaries |-> <<>>])
    /\ UNCHANGED <<spans, traces, ttl, now, next_sweep, chan, receivers, tasks,
                   published, last_ingested, sent, inputs, limit, lagged, arg, client, sweeper>>

-----------------------------------------------------------------------------
(* The client library: Tracer::new's batcher task, tracer.rs:136-166, and *)
(* ActiveSpan::end, span_builder.rs:105-108.  Spans are numbered in the   *)
(* order in which end() enqueues them.                                      *)

BatchLimit == 2     \* `batch.len() >= 100`, scaled

(* The state Tracer::new leaves: the queue open and empty, the batcher at  *)
(* its select!, nothing sent.                                               *)
IdleClient ==
    [open      |-> TRUE,     \* some sender of span_tx is alive
     queue     |-> <<>>,     \* the unbounded channel
     batch     |-> <<>>,     \* the batcher's Vec
     pc        |-> "select", \* the batcher's position
     call      |-> <<>>,     \* the spans of the ingest_spans call in flight
     calls     |-> <<>>,     \* every ingest_spans call made, in order
     results   |-> <<>>,     \* how each finished call ended
     enq_at    |-> <<>>,     \* per span: the calls finished when end() ran
     ended     |-> 0,        \* the end() calls that returned
     inflight  |-> {},       \* the spans enqueued while a call was in flight
     remainder |-> {}]       \* the spans not yet sent when the queue closed

server_vars == <<spans, traces, ttl, now, next_sweep, chan, receivers, tasks,
                 published, last_ingested, sent, inputs, limit, lagged, arg, out,
                 sweeper>>

(* std::mem::take(&mut batch): the batch is handed over, the Vec is empty. *)
keep(batch) == batch

take(batch) == <<>>

(* `client.ingest_spans(spans).await` with the taken batch.                *)
StartCall(c) ==
    [c EXCEPT !.pc = "rpc", !.call = c.batch, !.batch = take(c.batch),
              !.calls = Append(c.calls, c.batch)]

(* select!'s branches: `_ = interval.tick()` matches every value, so that  *)
(* branch is never disabled; `Some(span) = span_rx.recv()` is disabled     *)
(* when recv() gives None, the queue empty and every sender dropped.       *)
tick_disabled(c) == FALSE

recv_disabled(c) == ~c.open /\ c.queue = <<>>

(* `else => break` runs when every branch is disabled.                     *)
select_else(c) == tick_disabled(c) /\ recv_disabled(c)

(* ActiveSpan::end: the span is sent on the channel, the result of send    *)
(* dropped (`let _ =`), and end() returns ().  The ActiveSpan owns a       *)
(* sender, so the queue is open.                                            *)
End ==
    /\ client.open
    /\ Len(client.enq_at) < MaxClientSpans
    /\ client' = [client EXCEPT
                    !.queue = Append(@, Len(client.enq_at) + 1),
                    !.enq_at = Append(@, Len(client.results)),
                    !.inflight = IF client.pc = "rpc"
                                 THEN @ \cup {Len(client.enq_at) + 1} ELSE @,
                    !.ended = @ + 1]
    /\ UNCHANGED server_vars

(* The Tracer and every span builder and active span are dropped.          *)
DropProducers ==
    /\ client.open
    /\ client' = [client EXCEPT
                    !.open = FALSE,
                    !.remainder = {client.queue[i] : i \in DOMAIN client.queue}
                                  \cup {client.batch[i] : i \in DOMAIN client.batch}]
    /\ UNCHANGED server_vars

(* A recv branch that puts the span at the front of the buffer.            *)
BatcherRecvFront ==
    /\ client.pc = "select"
    /\ client.queue /= <<>>
    /\ LET c == [client EXCEPT !.queue = Tail(@),
                               !.batch = <<Head(client.queue)>> \o @]
       IN  client' = IF Len(c.batch) >= BatchLimit THEN StartCall(c) ELSE c
    /\ UNCHANGED server_vars

(* The recv branch, tracer.rs:151-157.                                      *)
BatcherRecv ==
    /\ client.pc = "select"
    /\ client.queue /= <<>>
    /\ LET c == [client EXCEPT !.queue = Tail(@),
                               !.batch = Append(@, Head(client.queue))]
       IN  client' = IF Len(c.batch) >= BatchLimit THEN StartCall(c) ELSE c
    /\ UNCHANGED server_vars

(* The interval fires: select! takes the tick branch, tracer.rs:145.       *)
BatcherTick ==
    /\ client.pc = "select"
    /\ ~tick_disabled(client)
    /\ client' = [client EXCEPT !.pc = "tick"]
    /\ UNCHANGED server_vars

(* A tick branch without the `!batch.is_empty()` test.                     *)
OnTickAlways ==
    /\ client.pc = "tick"
    /\ client' = StartCall(client)
    /\ UNCHANGED server_vars

(* The tick branch's body, tracer.rs:146-149: flush what there is, and go  *)
(* round the loop.                                                          *)
OnTick ==
    /\ client.pc = "tick"
    /\ client' = IF client.batch /= <<>>
                 THEN StartCall(client)
                 ELSE [client EXCEPT !.pc = "select"]
    /\ UNCHANGED server_vars

(* A batcher that puts a failed batch back.                                 *)
RpcReturnRetry(result) ==
    /\ client.pc = "rpc"
    /\ client' = [client EXCEPT !.pc = "select", !.call = <<>>,
                                !.results = Append(@, result),
                                !.batch = IF result = "err"
                                          THEN client.call \o @ ELSE @]
    /\ UNCHANGED server_vars

(* The call ends, well or not; `let _ =` drops the result and the loop     *)
(* goes on, tracer.rs:148, 155.                                             *)
RpcReturn(result) ==
    /\ client.pc = "rpc"
    /\ client' = [client EXCEPT !.pc = "select", !.call = <<>>,
                                !.results = Append(@, result)]
    /\ UNCHANGED server_vars

-----------------------------------------------------------------------------
(* TraceStore::new, storage.rs:21-46: empty maps, a channel without       *)
(* receivers; the sweeper's interval fires at once, then every period.     *)

InitStoreWith(a) ==
    /\ spans = <<>>
    /\ traces = <<>>
    /\ now = 0
    /\ next_sweep = 0
    /\ chan = [buf |-> <<>>, head |-> 0]
    /\ receivers = <<>>
    /\ tasks = [t \in TaskIds |-> IdleTask]
    /\ published = <<>>
    /\ last_ingested = None
    /\ sent = <<>>
    /\ lagged = <<>>
    /\ arg = a
    /\ out = None
    /\ client = IdleClient
    /\ sweeper = IdleSweeper

InitStore == InitStoreWith(None)

Init ==
    /\ InitStore
    /\ ttl = 1
    /\ inputs = StoreInputs
    /\ limit = MaxSpans

Next == \E t \in TaskIds : Ingest(t)

Spec == Init /\ [][Next]_vars

(* The store with its sweeper and the clock. *)
InitSweep ==
    /\ InitStore
    /\ ttl \in 0 .. MaxTtl
    /\ inputs = SweepInputs
    /\ limit = MaxSweepSpans

NextSweep ==
    \/ \E t \in TaskIds : Ingest(t)
    \/ Sweep
    \/ Tick

SpecSweep == InitSweep /\ [][NextSweep]_vars

(* The store with its sweeper, the clock and one handler at a time: a     *)
(* trace is stored, swept, and its spans are sent again.                   *)
InitResweep ==
    /\ InitStore
    /\ ttl = 1
    /\ inputs = ResweepInputs
    /\ limit = MaxResweepSpans

NextResweep ==
    \/ Ingest(1)
    \/ Sweep
    \/ Tick

SpecResweep == InitResweep /\ [][NextResweep]_vars

(* The store, one handler at a time, the clock, and the sweeper task in   *)
(* its steps, until the store is dropped and the task ends.                *)
InitSweeper ==
    /\ InitStore
    /\ ttl \in 0 .. MaxTtl
    /\ inputs = SweepInputs
    /\ limit = MaxSweeperSpans

NextSweeper ==
    \/ (sweeper.owners > 0 /\ Ingest(1))
    \/ Tick
    \/ SweepBegin
    \/ TickInSweep
    \/ SweepRetain
    \/ SweeperExit
    \/ DropStore

SpecSweeper == InitSweeper /\ [][NextSweeper]_vars

(* The store with concurrent handlers and spans whose ids do not follow   *)
(* their start times.                                                      *)
InitStored ==
    /\ InitStore
    /\ ttl = 1
    /\ inputs = StoredInputs
    /\ limit = MaxStoredSpans

NextStored == \E t \in TaskIds : Ingest(t)

SpecStored == InitStored /\ [][NextStored]_vars

(* The store with clients of stream_traces. *)
InitEvents ==
    /\ InitStore
    /\ ttl = 1
    /\ inputs = EventInputs
    /\ limit = MaxEventSpans

NextEvents ==
    \/ \E t \in TaskIds : Ingest(t)
    \/ \E r \in RxIds : Stream(r)

SpecEvents == InitEvents /\ [][NextEvents]_vars

(* The store with a client whose spans end before they start, in either  *)
(* build.                                                                  *)
InitSkew ==
    /\ InitStore
    /\ ttl = 1
    /\ inputs = SkewInputs
    /\ limit = MaxSkewSpans

NextSkew == \E t \in TaskIds : Ingest(t) \/ Overflow(t)

SpecSkew == InitSkew /\ [][NextSkew]_vars

(* list_traces as a function of the trace map and the filter.  The store *)
(* holds any of the traces of ListTraceIds, each with its root alone:      *)
(* the root starts at 1 or 2 and is open, or ends one tick before its      *)
(* start, at its start or one tick after it.  Trace 1 is of service "web", *)
(* the others of "api"; the root of trace 2 has status Error.  This is the *)
(* store after the roots were ingested one by one.                         *)
ListTraceIds == {1, 2, 3}

ListShapes == {1, 2} \X {"open", "before", "at", "after"}

ListRoot(t, shape) ==
    LET start == shape[1]
        end == IF shape[2] = "open" THEN None
               ELSE IF shape[2] = "before" THEN Some(start - 1)
               ELSE IF shape[2] = "at" THEN Some(start)
               ELSE Some(start + 1)
    IN  WithDetail(MkSpan(t, t, None, start, end, IF t = 1 THEN "web" ELSE "api"),
                   "root", IF t = 2 THEN "Error" ELSE "Ok", <<>>)

ListFilters ==
    { TraceFilter(service, min, max, errors, lim) :
        service \in {None, Some("api")},
        min \in {None, Some(1)},
        max \in {None, Some(0)},
        errors \in {None, Some(FALSE)},
        lim \in {None} \cup { Some(n) : n \in 0 .. MaxLimit } }

InitList ==
    /\ \E T \in SUBSET ListTraceIds :
          \E shape \in [T -> ListShapes] :
              /\ spans = [t \in T |-> ListRoot(t, shape[t])]
              /\ traces = [t \in T |->
                              [trace |-> Unwrap(from_spans(<<ListRoot(t, shape[t])>>)),
                               created_at |-> 0]]
    /\ arg \in { Some(f) : f \in ListFilters }
    /\ out = None
    /\ ttl = 1
    /\ now = 0
    /\ next_sweep = 0
    /\ chan = [buf |-> <<>>, head |-> 0]
    /\ receivers = <<>>
    /\ tasks = [t \in TaskIds |-> IdleTask]
    /\ published = <<>>
    /\ last_ingested = None
    /\ sent = <<>>
    /\ lagged = <<>>
    /\ inputs = {}
    /\ limit = 0
    /\ client = IdleClient
    /\ sweeper = IdleSweeper

NextList == ListTraces \/ ListPanics

SpecList == InitList /\ [][NextList]_vars

-----------------------------------------------------------------------------
(* A client process on its own: the application ends spans and drops its   *)
(* tracer, the batcher runs.  The tokio runtime polls the batcher when the *)
(* interval fires, when a span arrives and when its call ends, and select! *)
(* starts at a random branch, so that a branch that is ready again and     *)
(* again is taken: the fair specification says so.                          *)

InitClient ==
    /\ InitStore
    /\ ttl = 1
    /\ inputs = {}
    /\ limit = 0

NextClient ==
    \/ End
    \/ DropProducers
    \/ BatcherRecv
    \/ BatcherTick
    \/ OnTick
    \/ \E result \in {"ok", "err"} : RpcReturn(result)

SpecClient == InitClient /\ [][NextClient]_vars

FairSpecClient ==
    /\ SpecClient
    /\ SF_vars(BatcherRecv)
    /\ SF_vars(BatcherTick)
    /\ WF_vars(OnTick)
    /\ WF_vars(\E result \in {"ok", "err"} : RpcReturn(result))

-----------------------------------------------------------------------------
(* The functions of hindsight-protocol, each applied to an argument.  The *)
(* store plays no part and stays as TraceStore::new leaves it.             *)

(* Trace::from_spans on a vector of up to MaxLen spans of one trace.  The *)
(* span at position k has span id k; each is a root or a child, starts at  *)
(* 1 or 2 and is open or ends at 2 or 3.                                   *)
AssembleShapes == {None, Some(9)} \X {1, 2} \X {None, Some(2), Some(3)}

AssembleInput(n, shape) ==
    [k \in 1 .. n |-> MkSpan(1, k, shape[k][1], shape[k][2], shape[k][3], "api")]

InitAssemble ==
    /\ \E n \in 0 .. MaxLen :
          \E shape \in [1 .. n -> AssembleShapes] :
              InitStoreWith(Some(AssembleInput(n, shape)))
    /\ ttl = 1
    /\ inputs = {}
    /\ limit = 0

Assemble ==
    /\ IsSome(arg)
    /\ out = None
    /\ out' = Some(from_spans(Unwrap(arg)))
    /\ UNCHANGED <<spans, traces, ttl, now, next_sweep, chan, receivers, tasks,
                   published, last_ingested, sent, inputs, limit, lagged, arg, client, sweeper>>

NextAssemble == Assemble

SpecAssemble == InitAssemble /\ [][NextAssemble]_vars

(* Trace::classify_type on a trace of up to MaxTraceSpans spans: the     *)
(* root and its descendants in a chain.  Each span has any of the          *)
(* attributes picante.query, picante.query_kind and dodeca.build, and      *)
(* rpc.system with the value "rapace", "grpc" or true, or without it.      *)
AttributeKeys == <<"picante.query", "picante.query_kind", "dodeca.build", "rpc.system">>

AttributeChoices ==
    {None, Some(BoolValue(TRUE))}
        \X {None, Some(StringValue("derived"))}
        \X {None, Some(BoolValue(TRUE))}
        \X {None, Some(StringValue("rapace")), Some(StringValue("grpc")), Some(BoolValue(TRUE))}

(* The BTreeMap with the entries that were chosen. *)
Attributes(choice) ==
    LET chosen == { i \in 1 .. Len(AttributeKeys) : IsSome(choice[i]) }
    IN  [key \in { AttributeKeys[i] : i \in chosen } |->
            Unwrap(choice[CHOOSE i \in chosen : AttributeKeys[i] = key])]

ClassifyInput(n, choice) ==
    Unwrap(from_spans(
        [k \in 1 .. n |->
            WithDetail(MkSpan(1, k, IF k = 1 THEN None ELSE Some(k - 1), k, Some(k + 1), "api"),
                       "op", "Ok", Attributes(choice[k]))]))

InitClassify ==
    /\ \E n \in 1 .. MaxTraceSpans :
          \E choice \in [1 .. n -> AttributeChoices] :
              InitStoreWith(Some(ClassifyInput(n, choice)))
    /\ ttl = 1
    /\ inputs = {}
    /\ limit = 0

Classify ==
    /\ IsSome(arg)
    /\ out = None
    /\ out' = Some(classify_type(Unwrap(arg)))
    /\ UNCHANGED <<spans, traces, ttl, now, next_sweep, chan, receivers, tasks,
                   published, last_ingested, sent, inputs, limit, lagged, arg, client, sweeper>>

NextClassify == Classify

SpecClassify == InitClassify /\ [][NextClassify]_vars

-----------------------------------------------------------------------------
(* TraceContext and the traceparent header, trace_context.rs.  A string   *)
(* is the sequence of its characters; an id is the sequence of its bytes.  *)

Bytes == 0 .. 255

(* TraceId(pub [u8; 16]) and SpanId(pub [u8; 8]), trace_context.rs:6, 51 *)
TraceIdLen == 16
SpanIdLen == 8

Ok(v) == [ok |-> TRUE, value |-> v, error |-> ""]
Err(e) == [ok |-> FALSE, value |-> <<>>, error |-> e]

LowerDigits == <<"0", "1", "2", "3", "4", "5", "6", "7", "8", "9",
                 "a", "b", "c", "d", "e", "f">>
UpperDigits == <<"0", "1", "2", "3", "4", "5", "6", "7", "8", "9",
                 "A", "B", "C", "D", "E", "F">>

(* The value of a hexadecimal digit of either case, or none. *)
to_digit(c) ==
    IF \E d \in 1 .. 16 : LowerDigits[d] = c
    THEN Some((CHOOSE d \in 1 .. 16 : LowerDigits[d] = c) - 1)
    ELSE IF \E d \in 1 .. 16 : UpperDigits[d] = c
    THEN Some((CHOOSE d \in 1 .. 16 : UpperDigits[d] = c) - 1)
    ELSE None

(* hex::encode: two lowercase digits per byte, the high one first. *)
hex_encode_low_first(bytes) ==
    [k \in 1 .. 2 * Len(bytes) |->
        IF k % 2 = 1 THEN LowerDigits[(bytes[(k + 1) \div 2] % 16) + 1]
        ELSE LowerDigits[(bytes[(k + 1) \div 2] \div 16) + 1]]
hex_encode(bytes) ==
    [k \in 1 .. 2 * Len(bytes) |->
        IF k % 2 = 1 THEN LowerDigits[(bytes[(k + 1) \div 2] \div 16) + 1]
        ELSE LowerDigits[(bytes[(k + 1) \div 2] % 16) + 1]]

(* hex::decode: an error for an odd length or a character that is not a   *)
(* hexadecimal digit, else one byte per two digits.                        *)
hex_decode(s) ==
    IF Len(s) % 2 = 1 \/ \E k \in 1 .. Len(s) : to_digit(s[k]) = None
    THEN None
    ELSE Some([k \in 1 .. Len(s) \div 2 |->
                  16 * Unwrap(to_digit(s[2 * k - 1])) + Unwrap(to_digit(s[2 * k]))])

(* TraceId::from_hex and SpanId::from_hex, trace_context.rs:17-23, 62-68 *)
id_from_hex(s, len) ==
    IF Len(s) # 2 * len THEN Err("InvalidLength")
    ELSE IF hex_decode(s) = None THEN Err("InvalidHex")
    ELSE Ok(Unwrap(hex_decode(s)))

(* u8::from_str_radix(s, 16): an optional '+', then one or more hex       *)
(* digits of either case whose value fits a byte.                          *)
RECURSIVE radix_value(_)
radix_value(digits) ==
    IF digits = <<>> THEN 0
    ELSE 16 * radix_value(SubSeq(digits, 1, Len(digits) - 1))
            + Unwrap(to_digit(digits[Len(digits)]))

u8_from_str_radix(s) ==
    IF s = <<>> THEN None
    ELSE LET digits == IF Head(s) = "+" THEN Tail(s) ELSE s
         IN  IF digits = <<>> THEN None
             ELSE IF \E k \in 1 .. Len(digits) : to_digit(digits[k]) = None THEN None
             ELSE IF radix_value(digits) \notin Bytes THEN None
             ELSE Some(radix_value(digits))

(* header.split('-'): the fields between the separators, empty ones kept. *)
RECURSIVE split(_, _)
split(s, sep) ==
    IF \A k \in 1 .. Len(s) : s[k] # sep THEN <<s>>
    ELSE LET first == CHOOSE k \in 1 .. Len(s) :
                          s[k] = sep /\ \A j \in 1 .. k - 1 : s[j] # sep
         IN  <<SubSeq(s, 1, first - 1)>> \o split(SubSeq(s, first + 1, Len(s)), sep)

(* TraceContext::from_traceparent, trace_context.rs:125-145 *)
from_traceparent(header) ==
    LET parts == split(header, "-")
    IN  IF Len(parts) # 4 THEN Err("InvalidFormat")
        ELSE IF parts[1] # <<"0", "0">> THEN Err("UnsupportedVersion")
        ELSE LET trace_id == id_from_hex(parts[2], TraceIdLen)
                 span_id == id_from_hex(parts[3], SpanIdLen)
                 flags == u8_from_str_radix(parts[4])
             IN  IF ~trace_id.ok THEN trace_id
                 ELSE IF ~span_id.ok THEN span_id
                 ELSE IF flags = None THEN Err("InvalidHex")
                 ELSE Ok([trace_id |-> trace_id.value, span_id |-> span_id.value,
                          parent_span_id |-> None, flags |-> Unwrap(flags)])

(* {:02x}: the lowercase hexadecimal digits of the number, padded with    *)
(* zeros on the left to two characters.                                    *)
RECURSIVE lower_hex(_)
lower_hex(n) ==
    IF n < 16 THEN <<LowerDigits[n + 1]>>
    ELSE lower_hex(n \div 16) \o <<LowerDigits[(n % 16) + 1]>>

RECURSIVE pad_zeros(_, _)
pad_zeros(s, width) == IF Len(s) >= width THEN s ELSE pad_zeros(<<"0">> \o s, width)

(* TraceContext::to_traceparent, trace_context.rs:148-155 *)
to_traceparent(c) ==
    <<"0", "0", "-">> \o hex_encode(c.trace_id) \o <<"-">> \o hex_encode(c.span_id)
        \o <<"-">> \o pad_zeros(lower_hex(c.flags), 2)

(* The contexts of the round trip: ids whose bytes are all alike or all   *)
(* different, with or without a parent, every flags byte.                  *)
IdBytes(len) ==
    { [k \in 1 .. len |-> b] : b \in {0, 26, 255} }
        \cup { [k \in 1 .. len |-> (37 * k) % 256] }

Contexts ==
    { [trace_id |-> t, span_id |-> i, parent_span_id |-> p, flags |-> f] :
        t \in IdBytes(TraceIdLen), i \in IdBytes(SpanIdLen),
        p \in {None, Some([k \in 1 .. SpanIdLen |-> 7])}, f \in Bytes }

InitRoundTrip ==
    /\ \E c \in Contexts : InitStoreWith(Some(c))
    /\ ttl = 1
    /\ inputs = {}
    /\ limit = 0

(* The header is formatted and parsed back. *)
RoundTrip ==
    /\ IsSome(arg)
    /\ out = None
    /\ out' = Some(from_traceparent(to_traceparent(Unwrap(arg))))
    /\ UNCHANGED <<spans, traces, ttl, now, next_sweep, chan, receivers, tasks,
                   published, last_ingested, sent, inputs, limit, lagged, arg, client, sweeper>>

NextRoundTrip == RoundTrip

SpecRoundTrip == InitRoundTrip /\ [][NextRoundTrip]_vars

(* SpanBuilder and ActiveSpan, span_builder.rs.  arg is the builder's     *)
(* parent; out is the span from start() on, with what it sent on the       *)
(* channel.                                                                 *)

Sampled == 1        \* flags: 0x01, trace_context.rs:110

(* TraceContext::new_root with the ids TraceId::new and SpanId::new drew. *)
new_root(trace_id, span_id) ==
    [trace_id |-> trace_id, span_id |-> span_id, parent_span_id |-> None,
     flags |-> Sampled]

(* A child that is always sampled. *)
child_sampled(c, span_id) ==
    [trace_id |-> c.trace_id, span_id |-> span_id,
     parent_span_id |-> Some(c.span_id), flags |-> Sampled]

(* TraceContext::child with the id SpanId::new drew. *)
child(c, span_id) ==
    [trace_id |-> c.trace_id, span_id |-> span_id,
     parent_span_id |-> Some(c.span_id), flags |-> c.flags]

(* SpanBuilder::start, span_builder.rs:47-72, at time t. *)
start(parent, trace_id, span_id, t) ==
    LET context == IF IsSome(parent) THEN child(Unwrap(parent), span_id)
                   ELSE new_root(trace_id, span_id)
    IN  [span |-> MkSpan(context.trace_id, context.span_id,
                         context.parent_span_id, t, None, "api"),
         context |-> context,
         pc |-> "active",
         queue |-> <<>>]

(* The parents a builder is given: contexts of every shape, sampled, not   *)
(* sampled, and with every flag set.                                        *)
ParentContexts == { c \in Contexts : c.flags \in {0, Sampled, 255} }

InitSpan ==
    /\ \E parent \in {None} \cup { Some(c) : c \in ParentContexts } :
          InitStoreWith(parent)
    /\ ttl = 1
    /\ inputs = {}
    /\ limit = 0

span_frame == <<spans, traces, ttl, now, next_sweep, chan, receivers, tasks,
                published, last_ingested, sent, inputs, limit, lagged, arg,
                client, sweeper>>

StartSpan ==
    /\ out = None
    /\ \E trace_id \in IdBytes(TraceIdLen), span_id \in IdBytes(SpanIdLen),
          t \in 0 .. MaxTime :
          out' = Some(start(arg, trace_id, span_id, t))
    /\ UNCHANGED span_frame

(* ActiveSpan::end, span_builder.rs:105-108: `end(mut self)` takes the     *)
(* ActiveSpan by value, so it runs once; the span is stamped and sent.      *)
EndSpan ==
    /\ IsSome(out)
    /\ Unwrap(out).pc = "active"
    /\ \E t \in 0 .. MaxTime :
          LET a == Unwrap(out)
              ended == [a.span EXCEPT !.end_time = Some(t)]
          IN  out' = Some([a EXCEPT !.span = ended, !.pc = "ended",
                                    !.queue = Append(@, ended)])
    /\ UNCHANGED span_frame

(* The ActiveSpan is dropped without end(): there is no Drop impl, and     *)
(* nothing is sent.                                                         *)
DropSpan ==
    /\ IsSome(out)
    /\ Unwrap(out).pc = "active"
    /\ out' = Some([Unwrap(out) EXCEPT !.pc = "dropped"])
    /\ UNCHANGED span_frame

NextSpan ==
    \/ StartSpan
    \/ EndSpan
    \/ DropSpan

SpecSpan == InitSpan /\ [][NextSpan]_vars

(* The headers given to from_traceparent: three to five fields joined by *)
(* '-'.  Each field is as the format has it or differs from it in length,  *)
(* in case, by a character that is not a hexadecimal digit or by a sign.   *)
Repeat(pattern, n) ==
    [k \in 1 .. n * Len(pattern) |-> pattern[((k - 1) % Len(pattern)) + 1]]

RECURSIVE join(_, _)
join(fields, sep) ==
    IF Len(fields) = 0 THEN <<>>
    ELSE IF Len(fields) = 1 THEN fields[1]
    ELSE fields[1] \o <<sep>> \o join(Tail(fields), sep)

VersionFields == { <<"0", "0">>, <<"0", "1">>, <<"f", "f">>, <<"0">> }

IdFields(len) ==
    { Repeat(<<"0", "a">>, len),
      Repeat(<<"A", "B">>, len),
      Repeat(<<"0", "g">>, len),
      Repeat(<<"0">>, 2 * len - 1),
      Repeat(<<"0">>, 2 * len + 1),
      <<>> }

FlagsFields ==
    { <<"0", "1">>, <<"f", "f">>, <<"F", "F">>, <<"g", "1">>, <<"0", "x">>,
      <<"1">>, <<"0", "0", "1">>, <<"1", "0", "0">>, <<"+", "1">>, <<"+">>, <<>> }

InitParse ==
    /\ \E version \in VersionFields, flags \in FlagsFields, count \in {3, 4, 5} :
          \E trace_id \in IdFields(TraceIdLen), span_id \in IdFields(SpanIdLen) :
              InitStoreWith(Some(join(SubSeq(<<version, trace_id, span_id, flags, <<"0", "1">>>>,
                                             1, count), "-")))
    /\ ttl = 1
    /\ inputs = {}
    /\ limit = 0

Parse ==
    /\ IsSome(arg)
    /\ out = None
    /\ out' = Some(from_traceparent(Unwrap(arg)))
    /\ UNCHANGED <<spans, traces, ttl, now, next_sweep, chan, receivers, tasks,
                   published, last_ingested, sent, inputs, limit, lagged, arg, client, sweeper>>

NextParse == Parse

SpecParse == InitParse /\ [][NextParse]_vars

-----------------------------------------------------------------------------
(* The web UI's routes, hindsight-wasm routing.rs.  A route is its variant *)
(* with the trace id and the span id string it carries, empty when the     *)
(* variant has none.                                                        *)

MaxSpanIdChars == 2 \* characters of a route's span_id string

MkRoute(variant, trace_id, span_id) ==
    [variant |-> variant, trace_id |-> trace_id, span_id |-> span_id]

TraceList == MkRoute("TraceList", <<>>, <<>>)

traces_word == <<"t", "r", "a", "c", "e", "s">>
spans_word == <<"s", "p", "a", "n", "s">>
picante_word == <<"p", "i", "c", "a", "n", "t", "e">>
rapace_word == <<"r", "a", "p", "a", "c", "e">>
services_word == <<"s", "e", "r", "v", "i", "c", "e", "s">>

(* Route::to_hash, routing.rs:30-45 *)
to_hash(r) ==
    CASE r.variant = "TraceList" -> <<>>
      [] r.variant = "TraceDetail" ->
            traces_word \o <<"/">> \o hex_encode(r.trace_id)
      [] r.variant = "TraceDetailSpan" ->
            traces_word \o <<"/">> \o hex_encode(r.trace_id) \o <<"/">>
                \o spans_word \o <<"/">> \o r.span_id
      [] r.variant = "PicanteGraph" ->
            picante_word \o <<"/">> \o hex_encode(r.trace_id)
      [] r.variant = "RapaceTopology" -> rapace_word
      [] r.variant = "Services" -> services_word

(* hash.strip_prefix('#').unwrap_or(hash) *)
strip_hash(hash) ==
    IF hash # <<>> /\ Head(hash) = "#" THEN Tail(hash) ELSE hash

(* A route with a trace id when the segment is one, else the trace list.   *)
with_trace_id(variant, segment, span_id) ==
    LET id == id_from_hex(segment, TraceIdLen)
    IN  IF id.ok THEN MkRoute(variant, id.value, span_id) ELSE TraceList

(* Route::from_hash, routing.rs:49-95 *)
from_hash(h) ==
    LET hash == strip_hash(h)
        segments == split(hash, "/")
        n == Len(segments)
    IN  IF hash = <<>> THEN TraceList
        ELSE IF n = 1 /\ segments[1] = traces_word THEN TraceList
        ELSE IF n = 2 /\ segments[1] = traces_word
            THEN with_trace_id("TraceDetail", segments[2], <<>>)
        ELSE IF n = 4 /\ segments[1] = traces_word /\ segments[3] = spans_word
            THEN with_trace_id("TraceDetailSpan", segments[2], segments[4])
        ELSE IF n = 2 /\ segments[1] = picante_word
            THEN with_trace_id("PicanteGraph", segments[2], <<>>)
        ELSE IF n = 1 /\ segments[1] = rapace_word
            THEN MkRoute("RapaceTopology", <<>>, <<>>)
        ELSE IF n = 1 /\ segments[1] = services_word
            THEN MkRoute("Services", <<>>, <<>>)
        ELSE TraceList

(* The span_id strings: every string of up to MaxSpanIdChars characters    *)
(* over a letter, a digit, the separator and the prefix character.         *)
SpanIdChars == {"s", "7", "/", "#"}

SpanIdStrings ==
    UNION { [1 .. n -> SpanIdChars] : n \in 0 .. MaxSpanIdChars }

Routes ==
    {TraceList, MkRoute("RapaceTopology", <<>>, <<>>), MkRoute("Services", <<>>, <<>>)}
        \cup { MkRoute(v, t, <<>>) :
                 v \in {"TraceDetail", "PicanteGraph"}, t \in IdBytes(TraceIdLen) }
        \cup { MkRoute("TraceDetailSpan", t, i) :
                 t \in IdBytes(TraceIdLen), i \in SpanIdStrings }

InitRoute ==
    /\ \E r \in Routes : InitStoreWith(Some(r))
    /\ ttl = 1
    /\ inputs = {}
    /\ limit = 0

(* The route is written as a hash and the hash parsed back. *)
RouteRoundTrip ==
    /\ IsSome(arg)
    /\ out = None
    /\ out' = Some(from_hash(to_hash(Unwrap(arg))))
    /\ UNCHANGED <<spans, traces, ttl, now, next_sweep, chan, receivers, tasks,
                   published, last_ingested, sent, inputs, limit, lagged, arg, client, sweeper>>

NextRoute == RouteRoundTrip

SpecRoute == InitRoute /\ [][NextRoute]_vars

-----------------------------------------------------------------------------
(* Tracer::connect_http, tracer.rs:31-95, from the reply on: the bytes the *)
(* server sends before it closes the connection are read one at a time.    *)
(* Text is a sequence of characters, "CR" and "LF" the two of a line end.  *)

ResponseLimit == 80     \* `response.len() > 8192`, scaled

crlf == <<"CR", "LF">>

status_prefix_101 ==
    <<"H", "T", "T", "P", "/", "1", ".", "1", " ", "1", "0", "1">>

word_101 == <<"1", "0", "1">>

word_switching_protocols ==
    <<"S", "w", "i", "t", "c", "h", "i", "n", "g", " ", "P", "r", "o", "t",
      "o", "c", "o", "l", "s">>

(* str::contains *)
contains(s, word) ==
    \E k \in 1 .. Len(s) - Len(word) + 1 : SubSeq(s, k, k + Len(word) - 1) = word

(* The read loop, tracer.rs:61-79, by the number of bytes read when it    *)
(* stops: after each byte the blank line is looked for first, the size     *)
(* second; read_exact fails when the stream ends before either.            *)
ends_headers(stream, k) ==
    k >= 4 /\ SubSeq(stream, k - 3, k) = crlf \o crlf

read_response(stream) ==
    LET stops == {k \in 1 .. Len(stream) :
                     ends_headers(stream, k) \/ k > ResponseLimit}
    IN  IF stops = {} THEN Err("Failed to read upgrade response")
        ELSE LET k == CHOOSE i \in stops : \A j \in stops : i <= j
             IN  IF ends_headers(stream, k) THEN Ok(SubSeq(stream, 1, k))
                 ELSE Err("HTTP upgrade response too large")

(* The test of the reply, tracer.rs:82-88. *)
upgrade_refused(response) ==
    ~contains(response, word_101) /\ ~contains(response, word_switching_protocols)

(* Every error is TracerError::ConnectionFailed with its message; success  *)
(* is the tracer Tracer::new makes, with its session and its batcher.      *)
connect_http(stream) ==
    LET read == read_response(stream)
    IN  IF ~read.ok THEN Err(read.error)
        ELSE IF upgrade_refused(read.value) THEN Err("HTTP upgrade failed")
        ELSE Ok(IdleClient)

(* The replies: a status line, one header or none, and an end: the blank   *)
(* line, the connection closed before it, or more header bytes than the    *)
(* limit with or without a blank line after them.                           *)
StatusLines ==
    { <<"H", "T", "T", "P", "/", "1", ".", "1", " ", "1", "0", "1", " ", "S",
      "w", "i", "t", "c", "h", "i", "n", "g", " ", "P", "r", "o", "t", "o",
      "c", "o", "l", "s">>,
      <<"H", "T", "T", "P", "/", "1", ".", "1", " ", "1", "0", "1", " ", "U",
      "p", "g", "r", "a", "d", "e">>,
      <<"H", "T", "T", "P", "/", "1", ".", "1", " ", "4", "0", "0", " ", "B",
      "a", "d", " ", "R", "e", "q", "u", "e", "s", "t">>,
      <<"H", "T", "T", "P", "/", "1", ".", "1", " ", "2", "0", "0", " ", "O",
      "K">>,
      <<"H", "T", "T", "P", "/", "1", ".", "1", " ", "4", "0", "4", " ", "N",
      "o", "t", " ", "F", "o", "u", "n", "d">>,
      <<"H", "T", "T", "P", "/", "1", ".", "1", " ", "4", "2", "6", " ", "U",
      "p", "g", "r", "a", "d", "e", " ", "R", "e", "q", "u", "i", "r", "e",
      "d">> }

HeaderLines ==
    { <<>>,
      <<"C", "o", "n", "t", "e", "n", "t", "-", "L", "e", "n", "g", "t", "h",
      ":", " ", "0">>,
      <<"C", "o", "n", "t", "e", "n", "t", "-", "L", "e", "n", "g", "t", "h",
      ":", " ", "1", "0", "1">>,
      <<"S", "e", "r", "v", "e", "r", ":", " ", "S", "w", "i", "t", "c", "h",
      "i", "n", "g", " ", "P", "r", "o", "t", "o", "c", "o", "l", "s">>,
      <<"C", "o", "n", "n", "e", "c", "t", "i", "o", "n", ":", " ", "c", "l",
      "o", "s", "e">> }

Endings == {"blank", "closed", "long", "long-blank"}

Reply(status, header, ending) ==
    LET head == status \o crlf \o (IF header = <<>> THEN <<>> ELSE header \o crlf)
        filler == <<"X", ":", " ">> \o Repeat(<<"x">>, ResponseLimit)
    IN  CASE ending = "blank" -> head \o crlf
          [] ending = "closed" -> head
          [] ending = "long" -> head \o filler
          [] ending = "long-blank" -> head \o filler \o crlf \o crlf

InitConnect ==
    /\ \E status \in StatusLines, header \in HeaderLines, ending \in Endings :
          InitStoreWith(Some(Reply(status, header, ending)))
    /\ ttl = 1
    /\ inputs = {}
    /\ limit = 0

ConnectHttp ==
    /\ IsSome(arg)
    /\ out = None
    /\ out' = Some(connect_http(Unwrap(arg)))
    /\ UNCHANGED <<spans, traces, ttl, now, next_sweep, chan, receivers, tasks,
                   published, last_ingested, sent, inputs, limit, lagged, arg, client, sweeper>>

NextConnect == ConnectHttp

SpecConnect == InitConnect /\ [][NextConnect]_vars

-----------------------------------------------------------------------------
(* Helpers of the properties *)

Returned(t) == tasks[t].pc = "idle" /\ IsSome(tasks[t].ret)

(* The call of task t has returned, no other call ran during it and none  *)
(* has started since: the state is the one the call left.                  *)
ReturnedAlone(t) == Returned(t) /\ tasks[t].clean

Range(s) == { s[k] : k \in 1 .. Len(s) }

IsSelf(s) == s.service_name = SelfService

(* Positions of the events of one type in a sequence of events. *)
EventsOfType(log, type) == { k \in 1 .. Len(log) : log[k].type = type }

(* The spans clients sent that are not the server's own, in order. *)
SentToStore == SelectSeq(sent, LAMBDA s : ~IsSelf(s))

DistinctSpanIds(s) ==
    \A j, k \in 1 .. Len(s) : j # k => s[j].span_id # s[k].span_id

StoredSpansOf(t) == { spans[i] : i \in { j \in DOMAIN spans : spans[j].trace_id = t } }

-----------------------------------------------------------------------------
C2_NoSelfSpanStored ==
    /\ \A i \in DOMAIN spans : ~IsSelf(spans[i])
    /\ \A t \in DOMAIN traces : \A s \in Range(traces[t].trace.spans) : ~IsSelf(s)
    /\ \A k \in 1 .. Len(published) :
        /\ published[k].type = "TraceStarted" => published[k].service_name # SelfService
        /\ published[k].type = "SpanAdded" => ~IsSelf(published[k].span)

(* Two calls that overlapped have returned, a server span was among their *)
(* input and a client span was stored.                                     *)
C2_Witness ==
    /\ Quiescent
    /\ \E t \in TaskIds : tasks[t].overlapped
    /\ \E s \in Range(sent) : IsSelf(s)
    /\ spans # <<>>

(* C3 (as stated): once every span of a trace has been ingested, each     *)
(* once and each with an end_time, exactly one TraceCompleted has been     *)
(* published for the trace.                                                *)
C3_CompletedExactlyOnce ==
    (Quiescent /\ DistinctSpanIds(SentToStore)) =>
        \A t \in DOMAIN traces :
            (/\ is_complete(traces[t].trace)
             /\ Range(traces[t].trace.spans) = StoredSpansOf(t))
            => Cardinality({ k \in EventsOfType(published, "TraceCompleted") :
                               published[k].trace_id = t }) = 1

(* C4: a call ingest([s]) of a root span s whose span_id is not in the    *)
(* span map publishes TraceStarted then SpanAdded for s, one of each, and  *)
(* get_trace(s.trace_id) then returns a trace that contains s.             *)
C4_FreshRootCase(t) ==
    /\ ReturnedAlone(t)
    /\ Len(tasks[t].req) = 1
    /\ ~IsSelf(tasks[t].req[1])
    /\ tasks[t].req[1].parent_span_id = None
    /\ tasks[t].req[1].span_id \notin DOMAIN tasks[t].spans0

C4_FreshRoot ==
    \A t \in TaskIds :
        C4_FreshRootCase(t) =>
            LET s == tasks[t].req[1]
                pub == tasks[t].pub
            IN  /\ Cardinality(EventsOfType(pub, "TraceStarted")) = 1
                /\ Cardinality(EventsOfType(pub, "SpanAdded")) = 1
                /\ pub[1] = TraceStarted(s)
                /\ pub[2] = SpanAdded(s)
                /\ IsSome(get_trace(s.trace_id))
                /\ s \in Range(Unwrap(get_trace(s.trace_id)).spans)

(* A fresh root was ingested into a trace that already had a child. *)
C4_Witness ==
    \E t \in TaskIds :
        /\ C4_FreshRootCase(t)
        /\ \E i \in DOMAIN tasks[t].spans0 :
              tasks[t].spans0[i].trace_id = tasks[t].req[1].trace_id

(* C5: while no parentless span of trace T has been ingested, T has no    *)
(* stored trace (get_trace is none, list_traces has no summary for it);    *)
(* after a call that ends with a root of T, the stored trace of T holds    *)
(* every span the span map has for T, and its span_count counts them.      *)
RootIngested(t) ==
    \E k \in EventsOfType(published, "SpanAdded") :
        /\ published[k].trace_id = t
        /\ published[k].span.parent_span_id = None

C5_RootLastCase(t) ==
    /\ ReturnedAlone(t)
    /\ FilterSelf(tasks[t].req) # <<>>
    /\ tasks[t].req[Len(tasks[t].req)].parent_span_id = None
    /\ ~IsSelf(tasks[t].req[Len(tasks[t].req)])

C5_NoTraceWithoutRoot ==
    /\ \A t \in TraceIds : ~RootIngested(t) => get_trace(t) = None
    /\ \A t \in TaskIds :
        C5_RootLastCase(t) =>
            LET id == tasks[t].req[Len(tasks[t].req)].trace_id
            IN  /\ IsSome(get_trace(id))
                /\ Range(Unwrap(get_trace(id)).spans) = StoredSpansOf(id)
                /\ Len(Unwrap(get_trace(id)).spans) = Cardinality(StoredSpansOf(id))

(* The child came first and left no trace; the root then made a trace of  *)
(* two spans.                                                              *)
C5_Witness ==
    \E t \in TaskIds :
        /\ C5_RootLastCase(t)
        /\ LET id == tasks[t].req[Len(tasks[t].req)].trace_id
           IN  /\ id \notin DOMAIN tasks[t].traces0
               /\ \E i \in DOMAIN tasks[t].spans0 :
                     /\ tasks[t].spans0[i].trace_id = id
                     /\ tasks[t].spans0[i].parent_span_id # None
               /\ Len(Unwrap(get_trace(id)).spans) = 2

(* C6: when every call has returned and the spans handed to ingest had    *)
(* distinct span ids, the span map has exactly one entry per span.         *)
C6_NoLossNoDuplicate ==
    (Quiescent /\ DistinctSpanIds(SentToStore)) =>
        /\ Cardinality(DOMAIN spans) = Len(SentToStore)
        /\ \A s \in Range(SentToStore) : s.span_id \in DOMAIN spans /\ spans[s.span_id] = s

(* Two overlapping calls brought two spans. *)
C6_Witness ==
    /\ Quiescent
    /\ DistinctSpanIds(SentToStore)
    /\ Len(SentToStore) >= 2
    /\ \A t \in TaskIds : Returned(t) /\ tasks[t].overlapped

(* C8: a call ingest([s]) with s.span_id already in the span map leaves   *)
(* s as the record of that span_id, leaves the number of entries as it     *)
(* was and publishes no TraceStarted; when s is the very span ingested     *)
(* last, the span map and the span list of its trace stay as they were.    *)
C8_ReingestCase(t) ==
    /\ ReturnedAlone(t)
    /\ Len(tasks[t].req) = 1
    /\ ~IsSelf(tasks[t].req[1])
    /\ tasks[t].req[1].span_id \in DOMAIN tasks[t].spans0

C8_LastWriterWins ==
    \A t \in TaskIds :
        C8_ReingestCase(t) =>
            LET s == tasks[t].req[1]
                id == s.trace_id
                before == tasks[t].traces0
            IN  /\ spans[s.span_id] = s
                /\ Cardinality(DOMAIN spans) = Cardinality(DOMAIN tasks[t].spans0)
                /\ EventsOfType(tasks[t].pub, "TraceStarted") = {}
                /\ tasks[t].prev = Some(s) =>
                      /\ spans = tasks[t].spans0
                      /\ DOMAIN traces = DOMAIN before
                      /\ id \in DOMAIN traces =>
                            traces[id].trace.spans = before[id].trace.spans

(* A stored span was ingested again with another record. *)
C8_Witness ==
    \E t \in TaskIds :
        /\ C8_ReingestCase(t)
        /\ tasks[t].spans0[tasks[t].req[1].span_id] # tasks[t].req[1]
        /\ tasks[t].req[1].trace_id \in DOMAIN traces

C9_PublishOrder ==
    \A r \in DOMAIN receivers :
        LET got == receivers[r].got
        IN  /\ \A j, k \in 1 .. Len(got) : j < k => got[j].seq < got[k].seq
            /\ \A k \in 1 .. Len(got) : got[k].event = published[got[k].seq]

(* Two subscribers have each received several events. *)
C9_Witness ==
    /\ DOMAIN receivers = RxIds
    /\ \A r \in RxIds : Len(receivers[r].got) >= 2

(* C10: a receiver yields only events published after it was created. *)
C10_OnlyLaterEvents ==
    \A r \in DOMAIN receivers :
        \A k \in 1 .. Len(receivers[r].got) : receivers[r].got[k].seq > receivers[r].since

(* A receiver created while the ring held an earlier event, which another *)
(* receiver has got, has received a later event.                           *)
C10_Witness ==
    \E r, q \in DOMAIN receivers :
        /\ receivers[r].since > 0
        /\ receivers[r].got # <<>>
        /\ \E k \in 1 .. Len(receivers[q].got) : receivers[q].got[k].seq <= receivers[r].since

-----------------------------------------------------------------------------
(* Helpers of the subscriber properties *)

(* The receiver's position has been overwritten in the ring. *)
Overrun(r) == receivers[r].next < chan.head

AtPublish(t) == tasks[t].pc \in {"started", "added", "completed"}

(* C11: publishing never blocks or fails the ingest call, whatever the    *)
(* subscribers do.  A call that is about to publish can always do so; a    *)
(* call that has returned has returned its count and every span it was     *)
(* given past the filter is in the span map; a receiver that is more than  *)
(* the ring's capacity behind has lost its oldest events, and its next     *)
(* receive is the lag outcome and not one of those events; a receiver      *)
(* within the capacity still receives its next event.                      *)
C11_PublishNeverBlocks ==
    /\ \A t \in TaskIds :
          AtPublish(t) =>
              ENABLED (PublishStarted(t) \/ PublishAdded(t) \/ PublishCompleted(t))
    /\ \A t \in TaskIds :
          Returned(t) =>
              /\ tasks[t].ret = Some(Len(FilterSelf(tasks[t].req)))
              /\ \A s \in Range(FilterSelf(tasks[t].req)) : s.span_id \in DOMAIN spans
    /\ \A r \in DOMAIN receivers :
          IF receivers[r].next < ChanTail(chan) - Capacity
          THEN Overrun(r) /\ ENABLED RecvLagged(r) /\ ~ENABLED Recv(r)
          ELSE receivers[r].next < ChanTail(chan) =>
                   ENABLED Recv(r) /\ ~ENABLED RecvLagged(r)

(* A subscriber that consumed nothing was overrun, its first receive      *)
(* reported the lag, and the call that published has returned.             *)
C11_Witness ==
    /\ \E r \in DOMAIN lagged : lagged[r] = 0
    /\ \E t \in TaskIds : Returned(t) /\ Len(tasks[t].pub) > Capacity

(* C12 (as stated): a stream_traces stream never ends because its         *)
(* subscriber lagged.                                                      *)
C12_StreamSurvivesLag == DOMAIN lagged = {}

(* C13 (as stated): the ingest path never fails.  No call panics, whatever *)
(* the timestamps of its spans, and when a call has returned every span it *)
(* was given past the filter is in the span map.                           *)
C13_IngestNeverFails ==
    \A t \in TaskIds :
        /\ tasks[t].pc # "panicked"
        /\ Returned(t) =>
              \A s \in Range(FilterSelf(tasks[t].req)) : s.span_id \in DOMAIN spans

-----------------------------------------------------------------------------
(* Helpers of the listing properties *)

(* list_traces has returned. *)
Listed == IsSome(out) /\ Unwrap(out).status = "ok"

Listing == Unwrap(out).summaries

ListedIds == { Listing[k].trace_id : k \in 1 .. Len(Listing) }

(* The stored traces that pass the filter of the call. *)
Passing == { t \in DOMAIN traces : passes(traces[t].trace, Unwrap(arg)) }

EffectiveLimit ==
    IF IsSome(Unwrap(arg).limit) THEN Unwrap(Unwrap(arg).limit) ELSE DefaultLimit

MinOf(a, b) == IF a <= b THEN a ELSE b

(* C14 (as stated): the summaries list_traces returns are in strictly     *)
(* descending start_time order: each starts later than the one after it.   *)
C14_StrictlyDescending ==
    Listed =>
        \A k \in 1 .. Len(Listing) - 1 :
            Listing[k].start_time > Listing[k + 1].start_time

(* C14 (amended): the summaries list_traces returns are in descending     *)
(* start_time order, traces that started at the same time being adjacent   *)
(* in either order: each starts no earlier than the one after it.          *)
C14_Descending ==
    Listed =>
        \A k \in 1 .. Len(Listing) - 1 :
            Listing[k].start_time >= Listing[k + 1].start_time

(* A result with two traces of one start_time next to each other, and a   *)
(* later one before them.                                                  *)
C14_Witness ==
    /\ Listed
    /\ Len(Listing) = 3
    /\ Listing[1].start_time > Listing[2].start_time
    /\ Listing[2].start_time = Listing[3].start_time

(* C15: list_traces returns no more summaries than filter.limit, or than  *)
(* 100 when the filter has no limit: it returns as many as pass the filter *)
(* up to that number, no trace twice, and every trace that passes the      *)
(* filter and is not returned starts no later than every one returned.     *)
C15_LimitKeepsNewest ==
    Listed =>
        /\ Len(Listing) = MinOf(EffectiveLimit, Cardinality(Passing))
        /\ Cardinality(ListedIds) = Len(Listing)
        /\ ListedIds \subseteq Passing
        /\ \A k \in 1 .. Len(Listing) :
              \A t \in Passing \ ListedIds :
                  Listing[k].start_time >= traces[t].trace.start_time

(* The limit cut the result: a trace that passes the filter and started   *)
(* earlier than a returned one was left out.                               *)
C15_Witness ==
    /\ Listed
    /\ Len(Listing) >= 1
    /\ Len(Listing) = EffectiveLimit
    /\ \E t \in Passing \ ListedIds :
          traces[t].trace.start_time < Listing[Len(Listing)].start_time

(* C16: a stored trace of unknown duration is never returned when          *)
(* min_duration_nanos is set, and max_duration_nanos does not exclude it:  *)
(* in a result the limit did not cut it is present exactly when            *)
(* min_duration_nanos is not set and the service and has_errors filters    *)
(* let it pass.  A trace of known duration d is returned only if d is at   *)
(* least min_duration_nanos and at most max_duration_nanos, for each of    *)
(* the two that is set.                                                    *)
C16_DurationBounds ==
    Listed =>
        \A t \in DOMAIN traces :
            LET trace == traces[t].trace
                filter == Unwrap(arg)
            IN  IF trace.end_time = None
                THEN /\ IsSome(filter.min_duration_nanos) => t \notin ListedIds
                     /\ Len(Listing) < EffectiveLimit =>
                           (t \in ListedIds <=>
                               /\ filter.min_duration_nanos = None
                               /\ passes_service(trace, filter)
                               /\ passes_errors(trace, filter))
                ELSE t \in ListedIds =>
                        /\ IsSome(filter.min_duration_nanos) =>
                              duration_nanos(trace) >= Unwrap(filter.min_duration_nanos)
                        /\ IsSome(filter.max_duration_nanos) =>
                              duration_nanos(trace) <= Unwrap(filter.max_duration_nanos)

(* A call with max_duration_nanos set returned a trace of unknown         *)
(* duration and left out a trace of known, longer duration.                *)
C16_Witness ==
    /\ Listed
    /\ IsSome(Unwrap(arg).max_duration_nanos)
    /\ \E t \in ListedIds : traces[t].trace.end_time = None
    /\ \E t \in DOMAIN traces \ ListedIds :
          /\ IsSome(traces[t].trace.end_time)
          /\ duration_nanos(traces[t].trace) > Unwrap(Unwrap(arg).max_duration_nanos)

-----------------------------------------------------------------------------
(* Helpers of the properties of functions *)

Applied == IsSome(arg) /\ IsSome(out)

Parentless(S) == { k \in 1 .. Len(S) : S[k].parent_span_id = None }

Ended(S) == { k \in 1 .. Len(S) : IsSome(S[k].end_time) }

(* C17: from_spans(S) returns none when S is empty or has no span without *)
(* a parent.  Otherwise it returns a trace whose spans are the spans of S, *)
(* each once, in ascending order of start_time; whose root_span_id and     *)
(* start_time are those of the first span without a parent in that order,  *)
(* and no span without a parent starts earlier; and whose end_time is the  *)
(* greatest end_time of S, or none when no span of S has ended.            *)
C17_FromSpans ==
    Applied =>
        LET S == Unwrap(arg)
            r == Unwrap(out)
        IN  IF Parentless(S) = {}
            THEN r = None
            ELSE /\ IsSome(r)
                 /\ LET T == Unwrap(r)
                    IN  /\ Len(T.spans) = Len(S)
                        /\ Range(T.spans) = Range(S)
                        /\ \A j, k \in 1 .. Len(T.spans) :
                              j < k => T.spans[j].start_time <= T.spans[k].start_time
                        /\ \E k \in Parentless(T.spans) :
                              /\ \A j \in Parentless(T.spans) : k <= j
                              /\ T.root_span_id = T.spans[k].span_id
                              /\ T.start_time = T.spans[k].start_time
                        /\ \A k \in Parentless(S) : T.start_time <= S[k].start_time
                        /\ IF Ended(S) = {}
                           THEN T.end_time = None
                           ELSE /\ IsSome(T.end_time)
                                /\ \E k \in Ended(S) : S[k].end_time = T.end_time
                                /\ \A k \in Ended(S) :
                                      Unwrap(S[k].end_time) <= Unwrap(T.end_time)

(* A vector with two spans without a parent, the later one first, and a   *)
(* child that starts before both: the root is the second span of the input *)
(* and the second of the trace, and the trace ends with its last span.     *)
C17_Witness ==
    /\ Applied
    /\ IsSome(Unwrap(out))
    /\ LET S == Unwrap(arg)
           T == Unwrap(Unwrap(out))
       IN  /\ Cardinality(Parentless(S)) = 2
           /\ 1 \in Parentless(S)
           /\ T.root_span_id # S[1].span_id
           /\ 1 \notin Parentless(T.spans)
           /\ T.end_time = Some(3)

(* The frameworks whose mark some span of the trace carries: the key      *)
(* picante.query, the key rpc.system with the string "rapace", the key     *)
(* dodeca.build.                                                           *)
SpanMarks(span) ==
    (IF "picante.query" \in DOMAIN span.attributes THEN {"Picante"} ELSE {})
        \cup (IF /\ "rpc.system" \in DOMAIN span.attributes
                 /\ span.attributes["rpc.system"] = StringValue("rapace")
              THEN {"Rapace"} ELSE {})
        \cup (IF "dodeca.build" \in DOMAIN span.attributes THEN {"Dodeca"} ELSE {})

Detected(trace) == UNION { SpanMarks(trace.spans[k]) : k \in 1 .. Len(trace.spans) }

(* C18: classify_type returns Generic when no framework is detected in    *)
(* any span of the trace, the detected framework when exactly one is, and  *)
(* Mixed when two or more are, the frameworks being those detected in the  *)
(* spans of the trace taken together.                                      *)
C18_Classification ==
    Applied =>
        LET found == Detected(Unwrap(arg))
            type == Unwrap(out)
        IN  /\ found = {} => type = "Generic"
            /\ Cardinality(found) = 1 => found = {type}
            /\ Cardinality(found) >= 2 => type = "Mixed"

(* A parent with picante.query alone and a child with rpc.system =        *)
(* "rapace" alone give Mixed.                                              *)
C18_Witness ==
    /\ Applied
    /\ Unwrap(out) = "Mixed"
    /\ LET trace == Unwrap(arg)
       IN  /\ Len(trace.spans) = 2
           /\ SpanMarks(trace.spans[1]) = {"Picante"}
           /\ SpanMarks(trace.spans[2]) = {"Rapace"}

(* C19: for every TraceContext c, whatever its flags byte,                *)
(* from_traceparent(c.to_traceparent()) succeeds and yields the trace_id,  *)
(* span_id and flags of c, with no parent_span_id.                         *)
C19_RoundTrip ==
    Applied =>
        LET c == Unwrap(arg)
            r == Unwrap(out)
        IN  /\ r.ok
            /\ r.value.trace_id = c.trace_id
            /\ r.value.span_id = c.span_id
            /\ r.value.flags = c.flags
            /\ r.value.parent_span_id = None

(* The round trip of a context with a parent, ids of mixed bytes and a    *)
(* flags byte of one hexadecimal digit.                                    *)
C19_Witness ==
    /\ Applied
    /\ Unwrap(out).ok
    /\ LET c == Unwrap(arg)
       IN  /\ IsSome(c.parent_span_id)
           /\ c.flags = 10
           /\ c.trace_id[1] # c.trace_id[2]
           /\ c.span_id[1] # c.span_id[2]

IsHex(c) == IsSome(to_digit(c))

(* The header has the form 00-<32 hex digits>-<16 hex digits>-<2 hex      *)
(* digits>.                                                                *)
ExactForm(h) ==
    LET first_dash == 3
        second_dash == first_dash + 2 * TraceIdLen + 1
        third_dash == second_dash + 2 * SpanIdLen + 1
    IN  /\ Len(h) = third_dash + 2
        /\ h[1] = "0" /\ h[2] = "0"
        /\ \A k \in 3 .. Len(h) :
              IF k \in {first_dash, second_dash, third_dash}
              THEN h[k] = "-"
              ELSE IsHex(h[k])

(* C20 (as stated): from_traceparent accepts a header only if it has      *)
(* exactly the form 00-<32 hex digits>-<16 hex digits>-<2 hex digits>; it  *)
(* returns an error for every other header.                                *)
C20_AcceptsOnlyExactForm ==
    Applied => (Unwrap(out).ok => ExactForm(Unwrap(arg)))

-----------------------------------------------------------------------------
(* The client batcher *)

(* The ingest_spans calls that carried span s.                              *)
CallsWith(s) ==
    {k \in DOMAIN client.calls :
        \E i \in DOMAIN client.calls[k] : client.calls[k][i] = s}

SentCount(s) == Cardinality(CallsWith(s))

Closed == ~client.open

RemainderSent == \A s \in client.remainder : SentCount(s) = 1

(* C21: after every producer of the span queue is dropped, each span that  *)
(* was enqueued and not yet sent goes out in an ingest_spans call exactly  *)
(* once: no such span is ever in two calls, and each comes to be in one.   *)
C21_RemainderSentOnce ==
    /\ [](\A s \in client.remainder : SentCount(s) <= 1)
    /\ Closed ~> RemainderSent

C21_Witness ==
    /\ Closed
    /\ Cardinality(client.remainder) >= 2
    /\ RemainderSent
    /\ client.queue = <<>>
    /\ client.batch = <<>>

FailedCalls == {k \in DOMAIN client.results : client.results[k] = "err"}

(* Span s was enqueued after an ingest_spans call had failed.               *)
AfterFailure(s) ==
    /\ s \in DOMAIN client.enq_at
    /\ \E k \in FailedCalls : k <= client.enq_at[s]

NotResent ==
    \A k \in FailedCalls :
        \A i \in DOMAIN client.calls[k] : SentCount(client.calls[k][i]) = 1

(* Every end() so far returned, and the next one can run, whatever the     *)
(* calls did.                                                                *)
EndReturns ==
    /\ client.ended = Len(client.enq_at)
    /\ (client.open /\ Len(client.enq_at) < MaxClientSpans) => ENABLED End

(* C22: a failed ingest_spans call is swallowed: its spans are in no later *)
(* call, end() goes on returning, and the batcher goes on: a span enqueued *)
(* after a failure is received and sent in a call like any other.           *)
C22_FailureSwallowed ==
    /\ [](NotResent /\ EndReturns)
    /\ \A s \in 1 .. MaxClientSpans + 1 : AfterFailure(s) ~> (SentCount(s) = 1)

C22_Witness ==
    \E s \in DOMAIN client.enq_at :
        /\ AfterFailure(s)
        /\ NotResent
        /\ \E k \in CallsWith(s) :
              k \in DOMAIN client.results /\ client.results[k] = "ok"
        /\ client.ended = Len(client.enq_at)

(* The batcher is at its select! with every branch disabled: the one state *)
(* from which `else => break` leaves the loop.                              *)
LeavesLoop == client.pc = "select" /\ select_else(client)

(* C29: once every producer is dropped and the queue is closed, the        *)
(* batcher comes to leave its select loop.                                  *)
C29_BatcherTerminates == Closed ~> LeavesLoop

(* The batcher's step out of the tick branch flushes the whole buffer when *)
(* there is one and issues no call when there is none.                      *)
TickFlushes ==
    (client.pc = "tick" /\ client'.pc # "tick") =>
        IF client.batch # <<>>
        THEN /\ client'.pc = "rpc"
             /\ client'.call = client.batch
             /\ client'.calls = Append(client.calls, client.batch)
             /\ client'.batch = <<>>
        ELSE /\ client'.pc = "select"
             /\ client'.calls = client.calls

(* C35: every ingest_spans call of the batcher carries at least one span   *)
(* and at most BatchLimit: the buffer never stays at BatchLimit spans (the  *)
(* push that fills it flushes it), a tick flushes a non-empty buffer, and  *)
(* no call is made for an empty one.                                        *)
C35_BatchSizes ==
    /\ [](\A k \in DOMAIN client.calls :
            Len(client.calls[k]) >= 1 /\ Len(client.calls[k]) <= BatchLimit)
    /\ [](Len(client.batch) < BatchLimit)
    /\ [][TickFlushes]_vars

(* A full batch went out on the push that filled it, a single span on a    *)
(* tick, and a tick has found the buffer empty.                             *)
C35_Witness ==
    /\ \E k \in DOMAIN client.calls : Len(client.calls[k]) = BatchLimit
    /\ \E k \in DOMAIN client.calls : Len(client.calls[k]) = 1
    /\ client.pc = "tick"
    /\ client.batch = <<>>
    /\ client.queue = <<>>

(* The spans of the calls made so far, one call after the other.           *)
RECURSIVE Flatten(_)
Flatten(batches) ==
    IF batches = <<>> THEN <<>> ELSE Head(batches) \o Flatten(Tail(batches))

(* Spans are numbered as end() enqueued them.                               *)
EnqueueOrder == [s \in 1 .. Len(client.enq_at) |-> s]

(* What was enqueued is what went out, what is in the buffer and what is   *)
(* in the queue, in this order and once each.                               *)
NothingLostOrMoved ==
    Flatten(client.calls) \o client.batch \o client.queue = EnqueueOrder

(* C36: every span passed to end() comes to be in exactly one ingest_spans *)
(* call, and the spans of the successive calls, read one call after the    *)
(* other, are the spans in the order of their end(): none lost, none       *)
(* twice, none out of order, also for a span enqueued during a call.        *)
C36_EverySpanSentInOrder ==
    /\ []NothingLostOrMoved
    /\ \A s \in 1 .. MaxClientSpans + 1 :
          (s \in DOMAIN client.enq_at) ~> (SentCount(s) = 1)

(* Every span went out, in two calls; the last was enqueued while the      *)
(* first call was in flight.                                                *)
C36_Witness ==
    /\ Len(client.enq_at) >= 3
    /\ Flatten(client.calls) = EnqueueOrder
    /\ Len(client.calls) >= 2
    /\ Len(client.enq_at) \in client.inflight
    /\ client.pc = "select"

-----------------------------------------------------------------------------
(* Routes *)

(* C23: a route written as a URL hash and parsed back is the same route,   *)
(* for every variant, trace id and span_id string.                          *)
C23_RouteRoundTrip == Applied => Unwrap(out) = Unwrap(arg)

-----------------------------------------------------------------------------
(* The HTTP upgrade *)

(* The reply's status line says 101.                                        *)
Is101(reply) ==
    Len(reply) >= Len(status_prefix_101)
        /\ SubSeq(reply, 1, Len(status_prefix_101)) = status_prefix_101

(* More than the limit arrives and no blank line ends the headers.         *)
TooLong(reply) ==
    Len(reply) > ResponseLimit /\ ~contains(reply, crlf \o crlf)

(* C24: connect_http fails, and makes no tracer, when the reply is not a   *)
(* 101 response and when its headers pass the limit without a blank line.  *)
C24_RefusesOtherReplies ==
    (Applied /\ (~Is101(Unwrap(arg)) \/ TooLong(Unwrap(arg)))) => ~Unwrap(out).ok

-----------------------------------------------------------------------------
(* The trace map against the span map *)

(* C25: when no ingest call is in progress, every stored trace is          *)
(* from_spans of the spans the span map holds under its trace_id.          *)
C25_TracesFollowSpans ==
    Quiescent =>
        \A T \in DOMAIN traces :
            Some(traces[T].trace) = from_spans(SpansOfTrace(spans, T))

(* C26: once the calls have returned, the stored trace of every trace_id   *)
(* whose spans make a trace holds every span the span map has for it,      *)
(* however the calls' insert, collect and store steps were interleaved.    *)
C26_NoLostUpdate ==
    Quiescent =>
        \A T \in TraceIds :
            IsSome(from_spans(SpansOfTrace(spans, T))) =>
                /\ IsSome(get_trace(T))
                /\ StoredSpansOf(T) \subseteq Range(Unwrap(get_trace(T)).spans)

(* The roots sent so far all have span_id r.                                *)
OnlyRoot(r) ==
    \A s \in Range(SentToStore) : s.parent_span_id = None => s.span_id = r

(* C27: at most one TraceStarted is published for a root span, also when   *)
(* two calls that carry it run at once: while every root sent has the same *)
(* span_id, at most one TraceStarted has been published.                    *)
C27_OneTraceStarted ==
    \A r \in SpanIds :
        OnlyRoot(r) => Cardinality(EventsOfType(published, "TraceStarted")) <= 1

SpanIdsOf(T) == { s.span_id : s \in Range(traces[T].trace.spans) }

(* C28: no span_id is in the span lists of two stored traces.              *)
C28_SpanInOneTrace ==
    \A T, U \in DOMAIN traces : T # U => SpanIdsOf(T) \cap SpanIdsOf(U) = {}

-----------------------------------------------------------------------------
(* Negative durations *)

(* The trace's latest end is earlier than its root's start.                *)
Negative(trace) == IsSome(trace.end_time) /\ overflows(trace)

(* C30: list_traces reports the duration of a trace that ends before it    *)
(* starts as unknown: the call returns, the subtraction never overflows,   *)
(* and no summary of such a trace carries a number.                         *)
C30_NegativeIsUnknown ==
    IsSome(out) =>
        /\ Unwrap(out).status = "ok"
        /\ \A k \in 1 .. Len(Listing) :
              Negative(traces[Listing[k].trace_id].trace)
                  => Listing[k].duration_nanos = None

-----------------------------------------------------------------------------
(* The events of one call *)

AddedPositions(pub) == Ascending(EventsOfType(pub, "SpanAdded"))

(* C31: in the events one ingest call publishes, the k-th SpanAdded is for *)
(* the k-th input span, there is one for each, a TraceStarted comes right  *)
(* before the SpanAdded of its root and a TraceCompleted right after the   *)
(* SpanAdded of a span of its trace: the events of a span are together and *)
(* before those of the next span.                                           *)
C31_PerSpanGrouping ==
    \A t \in TaskIds :
        Returned(t) =>
            LET in == FilterSelf(tasks[t].req)
                pub == tasks[t].pub
                added == AddedPositions(pub)
            IN  /\ Len(added) = Len(in)
                /\ \A k \in 1 .. Len(added) : pub[added[k]] = SpanAdded(in[k])
                /\ \A p \in 1 .. Len(pub) :
                      /\ pub[p].type = "TraceStarted" =>
                            /\ p < Len(pub)
                            /\ pub[p + 1].type = "SpanAdded"
                            /\ pub[p + 1].span.parent_span_id = None
                            /\ pub[p] = TraceStarted(pub[p + 1].span)
                      /\ pub[p].type = "TraceCompleted" =>
                            /\ p > 1
                            /\ pub[p - 1].type = "SpanAdded"
                            /\ pub[p - 1].trace_id = pub[p].trace_id

(* A call of two spans returned: the first a new root, the second a span   *)
(* whose span_id was stored by then, each with its TraceCompleted.          *)
C31_Witness ==
    \E t \in TaskIds :
        /\ Returned(t)
        /\ Len(FilterSelf(tasks[t].req)) = 2
        /\ tasks[t].req[1].span_id = tasks[t].req[2].span_id
        /\ Len(tasks[t].pub) = 5
        /\ tasks[t].pub[1].type = "TraceStarted"
        /\ tasks[t].pub[3].type = "TraceCompleted"
        /\ tasks[t].pub[5].type = "TraceCompleted"

(* C32: when a call is at the point of publishing TraceCompleted, the      *)
(* spans the span map holds for the trace all have an end_time, and the    *)
(* event's span_count and duration_nanos are those of the trace these      *)
(* spans make: their number, and their latest end less the root's start.   *)
C32_CompletedMatchesSpanMap ==
    \A t \in TaskIds :
        tasks[t].pc = "completed" =>
            LET T == Head(tasks[t].batch).trace_id
                trace == Unwrap(tasks[t].trace)
                current == from_spans(SpansOfTrace(spans, T))
            IN  /\ \A s \in StoredSpansOf(T) : IsSome(s.end_time)
                /\ Len(trace.spans) = Cardinality(StoredSpansOf(T))
                /\ IsSome(current)
                /\ duration_nanos(trace) = duration_nanos(Unwrap(current))

-----------------------------------------------------------------------------
(* Ingest after a sweep *)

(* The call ingest([s]) of task t has returned; when it began the span map *)
(* held a root of s's trace and the trace map did not hold the trace: the  *)
(* trace had been swept.                                                    *)
C33_AfterSweepCase(t) ==
    /\ ReturnedAlone(t)
    /\ Len(tasks[t].req) = 1
    /\ tasks[t].req[1].trace_id \notin DOMAIN tasks[t].traces0
    /\ \E i \in DOMAIN tasks[t].spans0 :
          /\ tasks[t].spans0[i].trace_id = tasks[t].req[1].trace_id
          /\ tasks[t].spans0[i].parent_span_id = None

SpansOfBefore(t, T) ==
    { tasks[t].spans0[i] :
        i \in { j \in DOMAIN tasks[t].spans0 : tasks[t].spans0[j].trace_id = T } }

(* Every span_id sent is in the span map once the calls have returned. *)
NoSpanEvicted ==
    Quiescent => \A s \in Range(SentToStore) : s.span_id \in DOMAIN spans

(* C33 (as stated): the sweeper removes no span, and the first ingest of a *)
(* span of a swept trace T stores T again with every span of T ingested    *)
(* before the sweep; a root whose span_id is stored starts no trace.        *)
C33_AnySpanRecreates ==
    /\ NoSpanEvicted
    /\ \A t \in TaskIds :
          C33_AfterSweepCase(t) =>
              LET s == tasks[t].req[1]
              IN  /\ IsSome(get_trace(s.trace_id))
                  /\ SpansOfBefore(t, s.trace_id)
                        \subseteq Range(Unwrap(get_trace(s.trace_id)).spans)
                  /\ EventsOfType(tasks[t].pub, "TraceStarted") = {}

(* C33 (amended): the sweeper removes no span, and the first ingest of a   *)
(* span s of a swept trace T leaves the span map as it was but for s; when *)
(* the map then holds a parentless span of T, T is stored again with       *)
(* exactly the spans the map holds for T: those ingested before the sweep, *)
(* less the one whose span_id s reuses, and s; otherwise T stays absent.   *)
(* A root whose span_id is stored starts no trace.                          *)
C33_RecreatesFromSpanMap ==
    /\ NoSpanEvicted
    /\ \A t \in TaskIds :
          C33_AfterSweepCase(t) =>
              LET s == tasks[t].req[1]
                  T == s.trace_id
              IN  /\ spans = MapInsert(tasks[t].spans0, s.span_id, s)
                  /\ IF \E x \in StoredSpansOf(T) : x.parent_span_id = None
                     THEN /\ IsSome(get_trace(T))
                          /\ Range(Unwrap(get_trace(T)).spans) = StoredSpansOf(T)
                          /\ { x \in SpansOfBefore(t, T) : x.span_id # s.span_id }
                                \subseteq Range(Unwrap(get_trace(T)).spans)
                     ELSE get_trace(T) = None
                  /\ EventsOfType(tasks[t].pub, "TraceStarted") = {}

(* The trace of a root and its child was swept, and the root sent again    *)
(* brought it back with both spans.                                         *)
C33_Witness ==
    \E t \in TaskIds :
        /\ C33_AfterSweepCase(t)
        /\ tasks[t].req[1].parent_span_id = None
        /\ Cardinality(SpansOfBefore(t, 1)) = 2
        /\ IsSome(get_trace(1))
        /\ Len(Unwrap(get_trace(1)).spans) = 2

-----------------------------------------------------------------------------
(* The sweeper task *)

(* A sweep has ended and the next has not begun: `at`, `seen` and          *)
(* `removed` are those of one sweep.                                        *)
AfterSweep == sweeper.pc # "sweep"

(* C34: a sweep removes a trace if and only if the clock as    *)
(* the sweep read it, less the trace's created_at, is at least ttl; a      *)
(* trace created after the reading has a negative age and is kept.         *)
C34_RemovesIffExpired ==
    AfterSweep =>
        \A T \in DOMAIN sweeper.seen :
            T \in sweeper.removed <=>
                sweeper.at - sweeper.seen[T].created_at >= ttl

(* C34, what cleanup_expired does: the age of a trace created after the   *)
(* reading counts as zero, a sweep removes a trace if and only if that age *)
(* is at least ttl, so such a trace is kept exactly when ttl > 0.          *)
C34_RemovesIffAgeReached ==
    AfterSweep =>
        \A T \in DOMAIN sweeper.seen :
            /\ T \in sweeper.removed <=>
                  Age(sweeper.at, sweeper.seen[T].created_at) >= ttl
            /\ sweeper.seen[T].created_at > sweeper.at =>
                  (T \in sweeper.removed <=> ttl = 0)

(* One sweep removed an old trace and kept one that an ingest stored       *)
(* after the sweep had read the clock.                                      *)
C34_Witness ==
    /\ AfterSweep
    /\ sweeper.removed # {}
    /\ \E T \in DOMAIN sweeper.seen \ sweeper.removed :
          sweeper.seen[T].created_at > sweeper.at

(* C38: the sweeper keeps the store alive only inside a sweep: with no     *)
(* other owner and no sweep running the store is freed; no sweep runs on a *)
(* freed store; and at the tick that follows, the one step the task can    *)
(* take is to end.                                                          *)
C38_SweeperEndsWithStore ==
    /\ (sweeper.owners = 0 /\ sweeper.pc # "sweep") => sweeper.freed
    /\ sweeper.freed => sweeper.owners = 0 /\ sweeper.pc # "sweep"
    /\ sweeper.pc = "exited" => sweeper.freed
    /\ (sweeper.freed /\ sweeper.pc = "tick" /\ now = next_sweep) =>
          ENABLED SweeperExit /\ ~ENABLED SweepBegin

(* The store was dropped during a sweep, which removed a trace; the task   *)
(* ended at the next tick.                                                  *)
C38_Witness ==
    /\ sweeper.pc = "exited"
    /\ sweeper.removed # {}
    /\ now > sweeper.at

-----------------------------------------------------------------------------
(* Stored traces *)

(* The entry under key T is a trace of id T made of spans of T, in         *)
(* ascending start_time order, whose root_span_id names one of its spans   *)
(* without parent.                                                          *)
WellFormed(T) ==
    LET trace == traces[T].trace
    IN  /\ trace.trace_id = T
        /\ \A k \in DOMAIN trace.spans : trace.spans[k].trace_id = T
        /\ \A j, k \in DOMAIN trace.spans :
              j < k => trace.spans[j].start_time <= trace.spans[k].start_time
        /\ \E k \in DOMAIN trace.spans :
              /\ trace.spans[k].span_id = trace.root_span_id
              /\ trace.spans[k].parent_span_id = None

(* C37: every stored trace is well formed, so that list_traces finds the   *)
(* root span of every stored trace and skips none for lack of one.         *)
C37_StoredTraceWellFormed ==
    \A T \in DOMAIN traces :
        /\ WellFormed(T)
        /\ root_of(traces[T].trace) # None

(* A stored trace of two spans whose root starts after its child and has  *)
(* the lower span_id.                                                       *)
C37_Witness ==
    /\ \E T \in DOMAIN traces :
          LET trace == traces[T].trace
          IN  /\ Len(trace.spans) >= 2
              /\ trace.spans[1].parent_span_id # None
              /\ trace.spans[1].start_time < trace.spans[2].start_time
              /\ trace.spans[1].span_id > trace.spans[2].span_id

-----------------------------------------------------------------------------
(* Picante keys *)

(* The attribute keys of the inputs that equal "picante.query" or start    *)
(* with it.                                                                 *)
PicanteQueryKeys == {"picante.query", "picante.query_kind"}

(* Some span of the trace carries one of them. *)
HasPicanteQueryKey(trace) ==
    \E k \in 1 .. Len(trace.spans) :
        DOMAIN trace.spans[k].attributes \cap PicanteQueryKeys # {}

(* C39: classify_type counts a trace as Picante whenever some span has an  *)
(* attribute key that equals or starts with "picante.query": such a trace  *)
(* classifies as Picante, or as Mixed when another framework is detected   *)
(* too; with "picante.query_kind" as its only framework key, as Picante.   *)
C39_PrefixMarksPicante ==
    Applied =>
        (HasPicanteQueryKey(Unwrap(arg)) =>
            /\ Unwrap(out) \in {"Picante", "Mixed"}
            /\ (Detected(Unwrap(arg)) = {} => Unwrap(out) = "Picante"))

-----------------------------------------------------------------------------
(* Spans of the client *)

(* C40: a span started with a parent context has the parent's trace_id,    *)
(* the parent's span_id as its parent_span_id and the parent's flags in    *)
(* its context; a span started without one has no parent_span_id and flags *)
(* 0x01; every span sent on the channel has an end_time, and one           *)
(* ActiveSpan is sent at most once.                                         *)
C40_StartedSpan ==
    IsSome(out) =>
        LET a == Unwrap(out)
        IN  /\ IsSome(arg) =>
                  /\ a.span.trace_id = Unwrap(arg).trace_id
                  /\ a.span.parent_span_id = Some(Unwrap(arg).span_id)
                  /\ a.context.flags = Unwrap(arg).flags
            /\ arg = None =>
                  /\ a.span.parent_span_id = None
                  /\ a.context.flags = Sampled
            /\ a.span.span_id = a.context.span_id
            /\ \A k \in DOMAIN a.queue : IsSome(a.queue[k].end_time)
            /\ Len(a.queue) <= 1
            /\ (a.pc = "ended" <=> Len(a.queue) = 1)

(* The child of a context that is not sampled was ended and sent. *)
C40_Witness ==
    /\ IsSome(arg)
    /\ Unwrap(arg).flags = 0
    /\ IsSome(out)
    /\ Unwrap(out).pc = "ended"
    /\ Len(Unwrap(out).queue) = 1
    /\ Unwrap(out).queue[1].parent_span_id = Some(Unwrap(arg).span_id)


=============================================================================
